---- MODULE Spec2Model ----
(***************************************************************************)
(* Model of the BULWARK time-restriction engine (class TimeRestrictions of *)
(* src/time-restrictions.js): the session registry (timeTrackers), the     *)
(* limit store (currentSettings), the persistent key-value store with its  *)
(* asynchronous writes and change notifications, the tab lifecycle         *)
(* handlers, and the reconciliation pass (updateTimeUsage) split at its    *)
(* suspension points.                                                      *)
(*                                                                         *)
(* Strings are sequences of atomic tokens ("https://", "www.", a host      *)
(* name, a path, a port); times are milliseconds as in the source.         *)
(* Floating point rounding of (now - startTime) / 1000 is not modelled:    *)
(* all times of the model are whole milliseconds.                          *)
(***************************************************************************)
EXTENDS Integers, Sequences, FiniteSets, TLC

(* ------------------------------ bounds -------------------------------- *)
NumTabs == 2
MaxTicks == 5
ClockStep == 30000
MaxLimit == 2
MaxPending == 2
MaxRestarts == 1
MaxDay == 1
NumPassTabs == 1

(* ------------------------- program constants -------------------------- *)
MsPerSecond == 1000
SecondsPerMinute == 60
TimerInterval == 60000

\* An absent value is the empty tuple, a present one a 1-tuple
Null == <<>>
Some(x) == <<x>>
Val(o) == o[1]

\* A closed tab, or a tab without url
NoTab == <<>>
DefaultMessage == "Your daily browsing time is over! Take a break."

Tabs == 1..NumTabs

(* ------------------------------ strings ------------------------------- *)
Schemes == {"http://", "https://"}

Lower(tok) ==
    CASE tok = "Example.com" -> "example.com"
      [] tok = "BAD_DOMAIN" -> "bad_domain"
      [] tok = "HTTPS://" -> "https://"
      [] tok = "WWW." -> "www."
      [] OTHER -> tok

ToLowerCase(s) == [i \in 1..Len(s) |-> Lower(s[i])]

RECURSIVE TrimLeft(_)
TrimLeft(s) == IF s # <<>> /\ Head(s) = " " THEN TrimLeft(Tail(s)) ELSE s

RECURSIVE TrimRight(_)
TrimRight(s) ==
    IF s # <<>> /\ s[Len(s)] = " " THEN TrimRight(SubSeq(s, 1, Len(s) - 1)) ELSE s

Trim(s) == TrimRight(TrimLeft(s))

StartsWith(s, tok) == s # <<>> /\ Head(s) = tok

\* s.replace(/^https?:\/\//, '')
StripScheme(s) == IF s # <<>> /\ Head(s) \in Schemes THEN Tail(s) ELSE s

\* s.replace(/^www\./, '')
StripWww(s) == IF StartsWith(s, "www.") THEN Tail(s) ELSE s

PathToks == {"/", "/path", "/cart"}
PortToks == {":443", ":8080"}

\* s.split(sep)[0], for a separator that occurs only as the first character
\* of the tokens in seps.
RECURSIVE UpTo(_, _)
UpTo(s, seps) ==
    IF s = <<>> \/ Head(s) \in seps THEN <<>> ELSE <<Head(s)>> \o UpTo(Tail(s), seps)

\* A normalizer that strips www. before the scheme
StripWwwFirst(domain) ==
    UpTo(UpTo(StripScheme(StripWww(Trim(ToLowerCase(domain)))), PathToks), PortToks)

normalizeDomain(domain) ==
    UpTo(UpTo(StripWww(StripScheme(Trim(ToLowerCase(domain)))), PathToks), PortToks)

(* ------------------------------- URLs --------------------------------- *)
UrlNews == <<"https://", "news.com", "/">>
UrlShop == <<"https://", "www.", "shop.com", "/cart">>
UrlInternal == <<"chrome://", "settings">>
UrlBlocked == <<"chrome-extension://", "bulwark", "/blocked.html?reason=time_limit">>

NavUrls == {UrlNews, UrlShop, UrlInternal}

\* A filter that takes every page of an open tab
AnyOpenPage(url) == url # NoTab

isTrackableUrl(url) ==
    /\ url # NoTab
    /\ ~StartsWith(url, "chrome://")
    /\ ~StartsWith(url, "chrome-extension://")
    /\ ~StartsWith(url, "about:")
    /\ (StartsWith(url, "http://") \/ StartsWith(url, "https://"))

\* new URL(url).hostname.replace(/^www\./, '') for a trackable url
HostnameOf(url) == <<Lower(Head(StripWww(Tail(url))))>>

SiteNews == <<"news.com">>
SiteShop == <<"shop.com">>

(* ------------------------ object keys of tab ids ----------------------- *)
Digit(d) == CASE d = 0 -> "0" [] d = 1 -> "1" [] d = 2 -> "2" [] d = 3 -> "3"
              [] d = 4 -> "4" [] d = 5 -> "5" [] d = 6 -> "6" [] d = 7 -> "7"
              [] d = 8 -> "8" [] d = 9 -> "9"

DigitVal(c) == CHOOSE d \in 0..9 : Digit(d) = c

\* String(tabId): the property key under which sessions[tabId] is stored
RECURSIVE KeyOf(_)
KeyOf(n) == IF n < 10 THEN <<Digit(n)>> ELSE KeyOf(n \div 10) \o <<Digit(n % 10)>>

\* parseInt(key) for a key made of decimal digits
RECURSIVE parseInt(_)
parseInt(key) ==
    IF Len(key) = 1 THEN DigitVal(key[1])
    ELSE 10 * parseInt(SubSeq(key, 1, Len(key) - 1)) + DigitVal(key[Len(key)])

(* ------------------------- records and maps --------------------------- *)
EmptyMap == <<>>

\* Whole-key overwrite of the keys of w in m
Merge(w, m) == [k \in DOMAIN w \cup DOMAIN m |-> IF k \in DOMAIN w THEN w[k] ELSE m[k]]

Restrict(m, keys) == [k \in keys |-> m[k]]

\* new Date().toDateString()
DateString(day) == <<"day", day>>

SettingsKeys == {"timeRestrictionsEnabled", "globalDailyLimit", "globalUsed",
                 "warningMessage", "siteLimits", "lastResetDate"}

Defaults(day) ==
    [timeRestrictionsEnabled |-> FALSE,
     globalDailyLimit |-> Null,
     globalUsed |-> 0,
     warningMessage |-> DefaultMessage,
     siteLimits |-> <<>>,
     lastResetDate |-> DateString(day),
     trackingSessions |-> EmptyMap]

(* ------------------------- the session registry ----------------------- *)
\* timeTrackers is a Map: its entries in insertion order, the key in tabId
HasTracker(tt, t) == \E i \in 1..Len(tt) : tt[i].tabId = t

IndexOfTab(tt, t) == CHOOSE i \in 1..Len(tt) : tt[i].tabId = t

NewSession(t, url, time) ==
    [tabId |-> t, hostname |-> HostnameOf(url), startTime |-> time, lastUpdate |-> time]

\* A registry that adds an entry whatever it holds
AppendSession(tt, sess) == Append(tt, sess)

\* Map.prototype.set: an existing key keeps its place, a new key is appended
MapSet(tt, sess) ==
    IF HasTracker(tt, sess.tabId)
    THEN [tt EXCEPT ![IndexOfTab(tt, sess.tabId)] = sess]
    ELSE Append(tt, sess)

\* Map.prototype.delete
MapDelete(tt, t) ==
    LET i == IndexOfTab(tt, t)
    IN  SubSeq(tt, 1, i - 1) \o SubSeq(tt, i + 1, Len(tt))

SessionValue(e) ==
    [hostname |-> e.hostname, startTime |-> e.startTime, lastUpdate |-> e.lastUpdate]

\* the sessions object built by persistSessions: sessions[tabId] = session
Snapshot(tt) ==
    [k \in {KeyOf(tt[i].tabId) : i \in 1..Len(tt)} |->
        SessionValue(tt[CHOOSE i \in 1..Len(tt) : KeyOf(tt[i].tabId) = k])]

\* Object.entries of an object with integer keys: ascending numeric order
RECURSIVE EntriesOf(_, _)
EntriesOf(snap, keys) ==
    IF keys = {} THEN <<>>
    ELSE LET k == CHOOSE x \in keys : \A y \in keys : parseInt(x) <= parseInt(y)
         IN  <<[tabId |-> parseInt(k), hostname |-> snap[k].hostname,
                startTime |-> snap[k].startTime, lastUpdate |-> snap[k].lastUpdate]>>
             \o EntriesOf(snap, keys \ {k})

\* loadSettings: timeTrackers.set(parseInt(tabId), session) for every entry
RECURSIVE RestoreInto(_, _)
RestoreInto(tt, entries) ==
    IF entries = <<>> THEN tt ELSE RestoreInto(MapSet(tt, Head(entries)), Tail(entries))

RestoreTrackers(snap) == RestoreInto(<<>>, EntriesOf(snap, DOMAIN snap))

(* ------------------------------- state -------------------------------- *)
VARIABLES
    now,              \* Date.now(), milliseconds
    today,            \* the calendar day
    tabUrl,           \* the browser: url of each tab, NoTab when closed
    storage,          \* chrome.storage.local: the committed keys
    pending,          \* chrome.storage.local.set calls not yet committed
    events,           \* storage.onChanged notifications not yet delivered
    currentSettings,  \* this.currentSettings
    timeTrackers,     \* this.timeTrackers
    isUpdating,       \* this.isUpdating
    timerDue,         \* next firings of the armed interval timers, Null when none
    listening,        \* setupEventListeners has run
    initPc,           \* position of init(): "loading", "resetting", "ready"
    scanPending,      \* the tabs.query of startTimeTracking has not answered
    pc,               \* position of updateTimeUsage
    pass,             \* locals of updateTimeUsage
    notified,         \* notifications created by the current or last pass
    redirected,       \* tabs.update requests made by the current or last pass
    redirectPending,  \* the tabs.query of showWarning("global") has not answered
    restarts,         \* number of process restarts so far
    origStart,        \* history: startTime each live session was created with
    credited,         \* history: minutes passes counted for each live session
    lastPassAt,       \* history: now of the last pass that processed the session
    evaluated,        \* history: runs of checkLimits in the current or last pass
    counted,          \* history: minutes counted by all passes so far
    restored          \* history: startTime of the sessions loadSettings restored

vars == <<now, today, tabUrl, storage, pending, events, currentSettings,
          timeTrackers, isUpdating, timerDue, listening, initPc, scanPending,
          pc, pass, notified, redirected, redirectPending, restarts,
          origStart, credited, lastPassAt, evaluated, counted, restored>>

envVars == <<now, today, tabUrl>>
storeVars == <<storage, pending, events>>
passVars == <<pc, pass, isUpdating>>
outVars == <<notified, redirected, redirectPending>>
histVars == <<origStart, credited, lastPassAt, evaluated, counted, restored>>
initVars == <<timerDue, listening, initPc, scanPending, restarts>>

NoPass ==
    [now |-> 0, idx |-> 0, tabId |-> 0, startTime |-> 0, hostname |-> <<>>,
     live |-> FALSE, seen |-> Null,
     globalTimeAdded |-> 0, siteTimeUpdates |-> EmptyMap]

NoHistory == [t \in Tabs |-> Null]

\* The state right after `new TimeRestrictions()` on a fresh profile:
\* init() is suspended in loadSettings at chrome.storage.local.get.
Init ==
    /\ now = 0
    /\ today = 0
    /\ tabUrl = [t \in Tabs |-> NoTab]
    /\ storage = EmptyMap
    /\ pending = <<>>
    /\ events = <<>>
    /\ currentSettings = EmptyMap
    /\ timeTrackers = <<>>
    /\ isUpdating = FALSE
    /\ timerDue = Null
    /\ listening = FALSE
    /\ initPc = "loading"
    /\ scanPending = FALSE
    /\ pc = "idle"
    /\ pass = NoPass
    /\ notified = <<>>
    /\ redirected = {}
    /\ redirectPending = FALSE
    /\ restarts = 0
    /\ origStart = NoHistory
    /\ credited = NoHistory
    /\ lastPassAt = NoHistory
    /\ evaluated = 0
    /\ counted = 0
    /\ restored = NoHistory

(* ------------------- the engine's mutable memory ---------------------- *)
\* Handlers are written as functions on a record m of the engine's memory
\* and of the queue of issued storage writes, so that a handler that calls
\* other handlers is one step.
Cur ==
    [tt |-> timeTrackers, q |-> pending, cs |-> currentSettings,
     pc |-> pc, p |-> pass, upd |-> isUpdating, ntf |-> notified,
     os |-> origStart, cr |-> credited, lp |-> lastPassAt, ev |-> evaluated,
     ct |-> counted]

Becomes(m) ==
    /\ Len(m.q) <= MaxPending
    /\ timeTrackers' = m.tt
    /\ pending' = m.q
    /\ currentSettings' = m.cs
    /\ pc' = m.pc
    /\ pass' = m.p
    /\ isUpdating' = m.upd
    /\ notified' = m.ntf
    /\ origStart' = m.os
    /\ credited' = m.cr
    /\ lastPassAt' = m.lp
    /\ evaluated' = m.ev
    /\ counted' = m.ct

Write(items, waiter) == [items |-> items, waiter |-> waiter]

\* A suspended handler resumes when the write it awaits has been committed
Awaited(q, waiter) == \E i \in 1..Len(q) : q[i].waiter = waiter

persistSessions(m, waiter) ==
    [m EXCEPT !.q = Append(@, Write([trackingSessions |-> Snapshot(m.tt)], waiter))]

saveSettings(m, waiter) ==
    [m EXCEPT !.q = Append(@, Write(Restrict(m.cs, SettingsKeys), waiter))]

\* A pass that reads the session of the probed tab from the registry again
\* when the probe has answered
ReadsRegistryAgain(m, t) == FALSE

\* The pass holds a reference to the session object of pass.tabId while it
\* is suspended in the probe of that tab.
HoldsSessionOf(m, t) == m.pc = "probe" /\ m.p.tabId = t

\* A cleanup that forgets the session in memory only
DeleteOnly(m, t) ==
    IF HasTracker(m.tt, t)
    THEN [m EXCEPT !.tt = MapDelete(@, t),
                   !.p.idx = IF m.pc = "probe" /\ IndexOfTab(m.tt, t) <= @ THEN @ - 1 ELSE @,
                   !.p.live = IF HoldsSessionOf(m, t) THEN FALSE ELSE @,
                   !.os[t] = Null, !.cr[t] = Null, !.lp[t] = Null]
    ELSE m

cleanupTab(m, t) ==
    IF HasTracker(m.tt, t)
    THEN LET i == IndexOfTab(m.tt, t)
         IN  persistSessions(
               [m EXCEPT !.tt = MapDelete(@, t),
                         !.p.idx = IF m.pc = "probe" /\ i <= @ THEN @ - 1 ELSE @,
                         !.p.live = IF HoldsSessionOf(m, t) THEN FALSE ELSE @,
                         !.os[t] = Null, !.cr[t] = Null, !.lp[t] = Null],
               "none")
    ELSE m

handleTabUpdate(m, t, url, time) ==
    IF ~isTrackableUrl(url)
    THEN cleanupTab(m, t)
    ELSE persistSessions(
           [m EXCEPT !.tt = MapSet(@, NewSession(t, url, time)),
                     !.p.live = IF HoldsSessionOf(m, t) THEN FALSE ELSE @,
                     !.os[t] = Some(time), !.cr[t] = Some(0), !.lp[t] = Null],
           "none")

(* --------------------------- environment ------------------------------ *)
\* Time passes. Storage calls complete within one clock step.
Tick(horizon) ==
    /\ now < horizon * ClockStep
    /\ pending = <<>>
    /\ events = <<>>
    /\ now' = now + ClockStep
    /\ UNCHANGED <<today, tabUrl, storeVars, currentSettings, timeTrackers,
                   passVars, outVars, histVars, initVars>>

\* Midnight
DayChange ==
    /\ today < MaxDay
    /\ today' = today + 1
    /\ UNCHANGED <<now, tabUrl, storeVars, currentSettings, timeTrackers,
                   passVars, outVars, histVars, initVars>>

(* ------------------------- tab lifecycle events ----------------------- *)
\* tabs.onUpdated with status 'complete' after tab t loaded url
TabNavigate(t, url) ==
    /\ tabUrl' = [tabUrl EXCEPT ![t] = url]
    /\ Becomes(IF listening /\ isTrackableUrl(url)
               THEN handleTabUpdate(Cur, t, url, now)
               ELSE Cur)
    /\ UNCHANGED <<now, today, storage, events, redirected, redirectPending,
                   restored, initVars>>

\* Tab t commits a navigation to url and is still loading: tabs.onUpdated
\* reports status 'loading', which the listener ignores, while tabs.get and
\* tabs.query already answer with the new url
TabLoading(t, url) ==
    /\ tabUrl[t] # url
    /\ tabUrl' = [tabUrl EXCEPT ![t] = url]
    /\ UNCHANGED <<now, today, storeVars, currentSettings, timeTrackers, passVars,
                   outVars, histVars, initVars>>

\* tabs.onActivated and the answer of its tabs.get
TabActivate(t) ==
    /\ tabUrl[t] # NoTab
    /\ listening
    /\ Becomes(IF isTrackableUrl(tabUrl[t])
               THEN handleTabUpdate(Cur, t, tabUrl[t], now)
               ELSE Cur)
    /\ UNCHANGED <<envVars, storage, events, redirected, redirectPending,
                   restored, initVars>>

\* tabs.onRemoved
TabClose(t) ==
    /\ tabUrl[t] # NoTab
    /\ tabUrl' = [tabUrl EXCEPT ![t] = NoTab]
    /\ Becomes(IF listening THEN cleanupTab(Cur, t) ELSE Cur)
    /\ UNCHANGED <<now, today, storage, events, redirected, redirectPending,
                   restored, initVars>>

(* ------------------------ the persistent store ------------------------ *)
\* The keys an onChanged notification reports. currentSettings.trackingSessions,
\* which the source keeps too, is never read after loadSettings: the model
\* leaves that field out, and with it the notifications that carry only it.
ChangedKeys(w, st) ==
    {k \in DOMAIN w \cap SettingsKeys : k \notin DOMAIN st \/ st[k] # w[k]}

\* chrome.storage.local commits the oldest issued set() and notifies the
\* registered onChanged listener of the keys whose value changed.
StorageCommit ==
    /\ pending # <<>>
    /\ LET w == Head(pending).items
           changed == ChangedKeys(w, storage)
       IN  /\ storage' = Merge(w, storage)
           /\ pending' = Tail(pending)
           /\ IF listening /\ changed # {}
              THEN /\ Len(events) < MaxPending
                   /\ events' = Append(events, Restrict(w, changed))
              ELSE events' = events
    /\ UNCHANGED <<envVars, currentSettings, timeTrackers, passVars, outVars,
                   histVars, initVars>>

handleSettingsChange(cs, changes) ==
    [k \in DOMAIN cs |-> IF k \in DOMAIN changes THEN changes[k] ELSE cs[k]]

\* storage.onChanged listener
DeliverChange ==
    /\ events # <<>>
    /\ events' = Tail(events)
    /\ currentSettings' = handleSettingsChange(currentSettings, Head(events))
    /\ UNCHANGED <<envVars, storage, pending, timeTrackers, passVars, outVars,
                   histVars, initVars>>

(* ------------------------------ startup ------------------------------- *)
resetDailyCounters(cs, day) ==
    [cs EXCEPT !.globalUsed = 0,
               !.siteLimits = [i \in 1..Len(@) |-> [@[i] EXCEPT !.used = 0]],
               !.lastResetDate = DateString(day)]

\* A rollover that does not look at the date of the last reset
ResetWhateverTheDate(m, day, waiter) ==
    saveSettings([m EXCEPT !.cs = resetDailyCounters(@, day)], waiter)

resetDailyCountersIfNeeded(m, day, waiter) ==
    IF m.cs.lastResetDate # DateString(day)
    THEN saveSettings([m EXCEPT !.cs = resetDailyCounters(@, day)], waiter)
    ELSE m

\* clearInterval(this.updateInterval) when the handle is set: the handle is
\* that of the timer armed last
clearInterval(timers) ==
    IF timers # <<>> THEN SubSeq(timers, 1, Len(timers) - 1) ELSE timers

\* A timer armed next to the ones already running
ArmAnother(timers, time) == Append(timers, time + TimerInterval)

\* startUpdateInterval: the due times of the timers armed afterwards
startUpdateInterval(timers, time) ==
    Append(clearInterval(timers), time + TimerInterval)

\* init() after loadSettings: setupEventListeners, startTimeTracking,
\* startUpdateInterval
Setup ==
    /\ listening' = TRUE
    /\ scanPending' = TRUE
    /\ timerDue' = startUpdateInterval(timerDue, now)
    /\ initPc' = "ready"

\* loadSettings, resumed with the answer of chrome.storage.local.get
LoadSettings ==
    /\ initPc = "loading"
    /\ pending = <<>>
    /\ LET data == Merge(storage, Defaults(today))
           tt == RestoreInto(timeTrackers, EntriesOf(data.trackingSessions,
                                                     DOMAIN data.trackingSessions))
           m == [Cur EXCEPT !.cs = Restrict(data, SettingsKeys), !.tt = tt,
                     !.os = [t \in Tabs |-> IF HasTracker(tt, t)
                                            THEN Some(tt[IndexOfTab(tt, t)].startTime)
                                            ELSE Null],
                     !.cr = [t \in Tabs |-> IF HasTracker(tt, t) THEN Some(0) ELSE Null]]
           rs == [t \in Tabs |-> IF HasTracker(tt, t)
                                 THEN Some(tt[IndexOfTab(tt, t)].startTime)
                                 ELSE Null]
       IN  /\ restored' = rs
           /\ Becomes(resetDailyCountersIfNeeded(m, today, "init"))
           /\ IF data.lastResetDate # DateString(today)
              THEN /\ initPc' = "resetting"
                   /\ UNCHANGED <<listening, scanPending, timerDue>>
              ELSE Setup
    /\ UNCHANGED <<envVars, storage, events, redirected, redirectPending, restarts>>

\* loadSettings, resumed with the rejection of chrome.storage.local.get:
\* the catch block assigns `defaults`, a const of the try block that is not
\* in scope there, so it throws a ReferenceError; loadSettings rejects and
\* init() ends in its own catch, before setupEventListeners
LoadSettingsFails ==
    /\ initPc = "loading"
    /\ initPc' = "failed"
    /\ UNCHANGED <<envVars, storeVars, currentSettings, timeTrackers, passVars,
                   outVars, histVars, timerDue, listening, scanPending, restarts>>

\* init() resumed after the saveSettings of resetDailyCountersIfNeeded
InitResume ==
    /\ initPc = "resetting"
    /\ ~Awaited(pending, "init")
    /\ Setup
    /\ UNCHANGED <<envVars, storeVars, currentSettings, timeTrackers, passVars,
                   outVars, histVars, restarts>>

RECURSIVE ScanTabs(_, _, _, _)
ScanTabs(m, t, urls, time) ==
    IF t > NumTabs THEN m
    ELSE ScanTabs(IF isTrackableUrl(urls[t]) THEN handleTabUpdate(m, t, urls[t], time)
                  ELSE m,
                  t + 1, urls, time)

\* startTimeTracking: the callback of chrome.tabs.query({})
StartupScan ==
    /\ scanPending
    /\ scanPending' = FALSE
    /\ Becomes(ScanTabs(Cur, 1, tabUrl, now))
    /\ UNCHANGED <<envVars, storage, events, redirected, redirectPending,
                   restored, timerDue, listening, initPc, restarts>>

\* The host terminates the process and starts it again: the memory is lost,
\* the issued writes are still committed, nobody awaits them any more.
Restart ==
    /\ restarts < MaxRestarts
    /\ restarts' = restarts + 1
    /\ pending' = [i \in 1..Len(pending) |-> Write(pending[i].items, "none")]
    /\ events' = <<>>
    /\ currentSettings' = EmptyMap
    /\ timeTrackers' = <<>>
    /\ isUpdating' = FALSE
    /\ timerDue' = Null
    /\ listening' = FALSE
    /\ initPc' = "loading"
    /\ scanPending' = FALSE
    /\ pc' = "idle"
    /\ pass' = NoPass
    /\ notified' = <<>>
    /\ redirected' = {}
    /\ redirectPending' = FALSE
    /\ origStart' = NoHistory
    /\ credited' = NoHistory
    /\ lastPassAt' = NoHistory
    /\ evaluated' = 0
    /\ counted' = counted
    /\ restored' = NoHistory
    /\ UNCHANGED <<envVars, storage>>

(* ----------------------- the reconciliation pass ----------------------- *)
Min(a, b) == IF a <= b THEN a ELSE b

\* JavaScript truthiness of a limit: null and 0 are falsy
Truthy(limit) == limit # Null /\ Val(limit) # 0

\* Math.floor(((now - startTime) / 1000) / 60)
timeSpentMinutes(time, startTime) ==
    (time - startTime) \div (MsPerSecond * SecondsPerMinute)

\* A pass that restarts the session at the time of the pass
ResetStartTime(time, startTime) == time

\* now - ((timeSpentSeconds % 60) * 1000), taken only when a minute elapsed
AdvancedStartTime(time, startTime) ==
    time - ((time - startTime) % (SecondsPerMinute * MsPerSecond))

\* siteTimeUpdates[hostname] += timeSpentMinutes
AddSiteTime(siteTimes, hostname, minutes) ==
    [h \in DOMAIN siteTimes \cup {hostname} |->
        (IF h \in DOMAIN siteTimes THEN siteTimes[h] ELSE 0)
        + (IF h = hostname THEN minutes ELSE 0)]

\* A global counter that counts with or without a daily limit
CountWithoutLimit(cs, globalTime) == [cs EXCEPT !.globalUsed = @ + globalTime]

\* applyTimeUpdates: the global counter
ApplyGlobalUsage(cs, globalTime) ==
    IF Truthy(cs.globalDailyLimit)
    THEN [cs EXCEPT !.globalUsed = @ + globalTime]
    ELSE cs

\* An entry credited without the Math.min against its limit
AddUnclamped(site, siteTimes) ==
    IF site.site \in DOMAIN siteTimes /\ site.enabled
    THEN [site EXCEPT !.used = @ + siteTimes[site.site]]
    ELSE site

\* An entry credited whether it is enabled or not
CreditDisabled(site, siteTimes) ==
    IF site.site \in DOMAIN siteTimes
    THEN [site EXCEPT !.used = Min(@ + siteTimes[site.site], site.limit)]
    ELSE site

\* applyTimeUpdates: one entry of siteLimits.map
ApplySiteUsage(site, siteTimes) ==
    IF site.site \in DOMAIN siteTimes /\ siteTimes[site.site] # 0 /\ site.enabled
    THEN LET newUsed == Min(site.used + siteTimes[site.site], site.limit)
         IN  IF newUsed # site.used THEN [site EXCEPT !.used = newUsed] ELSE site
    ELSE site

\* A pass that saves whatever it applied
AlwaysSave(cs, siteTimes) == TRUE

ApplySiteLimits(siteLimits, siteTimes) ==
    [i \in 1..Len(siteLimits) |-> ApplySiteUsage(siteLimits[i], siteTimes)]

NeedsSave(cs, siteTimes) ==
    \/ Truthy(cs.globalDailyLimit)
    \/ ApplySiteLimits(cs.siteLimits, siteTimes) # cs.siteLimits

\* checkLimits: the intervention to dispatch, Null when there is none
GlobalBreach(cs) ==
    Truthy(cs.globalDailyLimit) /\ cs.globalUsed >= Val(cs.globalDailyLimit)

\* A scan that does not look at the enabled flag
BreachedWhateverEnabled(site) == site.used >= site.limit

SiteBreached(site) == site.enabled /\ site.used >= site.limit

RECURSIVE FirstBreached(_)
FirstBreached(siteLimits) ==
    IF siteLimits = <<>> THEN Null
    ELSE IF SiteBreached(Head(siteLimits)) THEN Some(Head(siteLimits).site)
    ELSE FirstBreached(Tail(siteLimits))

\* An evaluator that looks at the sites before the global limit
checkSitesFirst(cs) ==
    IF FirstBreached(cs.siteLimits) # Null
    THEN Some([type |-> "site", site |-> Val(FirstBreached(cs.siteLimits))])
    ELSE IF GlobalBreach(cs) THEN Some([type |-> "global", site |-> Null])
         ELSE Null

checkLimits(cs) ==
    IF GlobalBreach(cs) THEN Some([type |-> "global", site |-> Null])
    ELSE IF FirstBreached(cs.siteLimits) # Null
         THEN Some([type |-> "site", site |-> Val(FirstBreached(cs.siteLimits))])
         ELSE Null

\* A warning that never names a site
NotificationWithoutSite(cs, w) ==
    [type |-> w.type, title |-> "Bulwark Time Limit", message |-> <<cs.warningMessage>>]

\* showWarning: the notification passed to chrome.notifications.create
Notification(cs, w) ==
    [type |-> w.type,
     title |-> "Bulwark Time Limit",
     message |-> IF w.type = "site"
                 THEN <<"Time limit reached for ">> \o w.site \o <<". ", cs.warningMessage>>
                 ELSE <<cs.warningMessage>>]

\* updateTimeUsage from `await this.persistSessions()` on. The locals of the
\* pass are dead from here on.
PersistAndWait(m) ==
    [persistSessions(m, "pass") EXCEPT !.pc = "persisting", !.p = NoPass]

\* applyTimeUpdates up to `await this.saveSettings()`; its parameter siteTimes
\* stays in scope until it returns
applyTimeUpdates(m) ==
    LET cs == [ApplyGlobalUsage(m.cs, m.p.globalTimeAdded) EXCEPT
                  !.siteLimits = ApplySiteLimits(@, m.p.siteTimeUpdates)]
    IN  IF NeedsSave(m.cs, m.p.siteTimeUpdates)
        THEN [saveSettings([m EXCEPT !.cs = cs], "pass") EXCEPT
                 !.pc = "saving",
                 !.p = [NoPass EXCEPT !.siteTimeUpdates = m.p.siteTimeUpdates]]
        ELSE PersistAndWait([m EXCEPT !.cs = cs])

\* The for loop of updateTimeUsage from the top of an iteration up to the
\* next suspension: the probe of the next entry, or what follows the loop.
LoopNext(m) ==
    IF m.p.idx < Len(m.tt)
    THEN LET e == m.tt[m.p.idx + 1]
         IN  [m EXCEPT !.pc = "probe",
                       !.p.idx = @ + 1, !.p.tabId = e.tabId,
                       !.p.startTime = e.startTime, !.p.hostname = e.hostname,
                       !.p.live = TRUE, !.p.seen = Null]
    ELSE IF m.p.globalTimeAdded > 0 THEN applyTimeUpdates(m) ELSE PersistAndWait(m)

\* The loop body after the probe answered with a trackable tab
CountSession(m) ==
    LET t == m.p.tabId
        minutes == timeSpentMinutes(m.p.now, m.p.startTime)
    IN  IF minutes > 0
        THEN [m EXCEPT
                !.p.globalTimeAdded = @ + minutes,
                !.ct = @ + minutes,
                !.p.siteTimeUpdates = AddSiteTime(@, m.p.hostname, minutes),
                !.tt = IF m.p.live
                       THEN [@ EXCEPT ![IndexOfTab(@, t)].startTime =
                                          AdvancedStartTime(m.p.now, m.p.startTime),
                                      ![IndexOfTab(@, t)].lastUpdate = m.p.now]
                       ELSE @,
                !.cr[t] = IF m.p.live THEN Some(Val(@) + minutes) ELSE @,
                !.lp[t] = IF m.p.live THEN Some(m.p.now) ELSE @]
        ELSE [m EXCEPT !.lp[t] = IF m.p.live THEN Some(m.p.now) ELSE @]

\* A pass that starts whenever tracking is enabled
StartsWhenEnabled(updating, cs) == cs.timeRestrictionsEnabled

\* The guard of updateTimeUsage: it returns at once when a pass is in
\* progress or tracking is disabled
PassMayStart(updating, cs) == ~(updating \/ ~cs.timeRestrictionsEnabled)

\* The interval timer fires: updateTimeUsage up to its first suspension
TimerFire ==
    /\ timerDue # Null
    /\ now >= Val(timerDue)
    /\ timerDue' = Some(Val(timerDue) + TimerInterval)
    /\ IF ~PassMayStart(isUpdating, currentSettings)
       THEN UNCHANGED <<pending, currentSettings, timeTrackers, passVars, notified,
                        redirected, histVars>>
       ELSE /\ Becomes(LoopNext([Cur EXCEPT !.upd = TRUE, !.ntf = <<>>, !.ev = 0,
                                            !.p = [NoPass EXCEPT !.now = now]]))
            /\ redirected' = {}
            /\ restored' = restored
    /\ UNCHANGED <<envVars, storage, events, redirectPending, listening, initPc,
                   scanPending, restarts>>

\* A probe that only misses tabs that are closed
TabClosed(url) == url = NoTab

\* !tab || !tab.url || !this.isTrackableUrl(tab.url), for the url the probe
\* finds, NoTab when the tab is gone
TabGone(url) == url = NoTab \/ ~isTrackableUrl(url)

\* chrome.tabs.get(tabId) answers: the rest of the iteration and the next one
ProbeAnswer ==
    /\ pc = "probe"
    /\ Becomes(LoopNext(IF ~TabGone(tabUrl[pass.tabId])
                        THEN CountSession(Cur)
                        ELSE cleanupTab(Cur, pass.tabId)))
    /\ UNCHANGED <<envVars, storage, events, redirected, redirectPending, restored,
                   initVars>>

\* The browser answers chrome.tabs.get(tabId) with the tab as it is now; the
\* answer is on its way to the pass
ProbeRead ==
    /\ pc = "probe"
    /\ pass.seen = Null
    /\ pass' = [pass EXCEPT !.seen = Some(tabUrl[pass.tabId])]
    /\ UNCHANGED <<envVars, storeVars, currentSettings, timeTrackers, pc, isUpdating,
                   outVars, histVars, initVars>>

\* The answer of chrome.tabs.get(tabId) reaches the pass after the events
\* that were delivered since the browser gave it
ProbeAnswerLate ==
    /\ pc = "probe"
    /\ pass.seen # Null
    /\ Becomes(LoopNext(IF ~TabGone(Val(pass.seen))
                        THEN CountSession(Cur)
                        ELSE cleanupTab(Cur, pass.tabId)))
    /\ UNCHANGED <<envVars, storage, events, redirected, redirectPending, restored,
                   initVars>>

\* applyTimeUpdates resumed after saveSettings: checkLimits up to
\* `await chrome.notifications.create`, or on to persistSessions
SaveDone ==
    /\ pc = "saving"
    /\ ~Awaited(pending, "pass")
    /\ LET w == checkLimits(currentSettings)
       IN  IF w # Null
           THEN Becomes([Cur EXCEPT !.pc = "notifying", !.ev = @ + 1, !.p = NoPass,
                            !.ntf = Append(@, Notification(currentSettings, Val(w)))])
           ELSE Becomes(PersistAndWait([Cur EXCEPT !.ev = @ + 1]))
    /\ UNCHANGED <<envVars, storage, events, redirected, redirectPending, restored,
                   initVars>>

\* chrome.storage.local.set rejects the write of saveSettings: saveSettings
\* rethrows, the catch of applyTimeUpdates logs the error and returns before
\* checkLimits, and updateTimeUsage goes on to persistSessions
SaveFails ==
    /\ pc = "saving"
    /\ Awaited(pending, "pass")
    /\ Becomes(PersistAndWait([Cur EXCEPT
                   !.q = SelectSeq(@, LAMBDA w : w.waiter # "pass")]))
    /\ UNCHANGED <<envVars, storage, events, outVars, initVars, restored>>

\* A pass that a failing session ends: the session is dropped and the loop
\* is left without the minutes counted so far
AbortPass(m) == PersistAndWait(cleanupTab(m, m.p.tabId))

\* The loop body fails for the entry being processed: a rejected probe is
\* turned into null by `.catch(() => null)`, an exception of the body is
\* caught by `catch (trackerError)`; either way cleanupTab(tabId) runs and
\* the for loop takes its next entry
trackerError(m) == LoopNext(cleanupTab(m, m.p.tabId))

\* The probe of the session being processed fails although its tab is open
ProbeFails ==
    /\ pc = "probe"
    /\ Becomes(trackerError(Cur))
    /\ UNCHANGED <<envVars, storage, events, redirected, redirectPending, restored,
                   initVars>>

\* Every open tab, whatever it shows
OpenTabs(urls) == {t \in Tabs : urls[t] # NoTab}

\* showWarning("global"): the tabs of the query answer that are sent to the
\* blocking page
TabsToBlock(urls) == {t \in Tabs : isTrackableUrl(urls[t])}

\* showWarning resumed after the notification: a global warning asks for the
\* open tabs; then updateTimeUsage goes on to persistSessions
NotifyDone ==
    /\ pc = "notifying"
    /\ redirectPending' = (redirectPending \/ notified[Len(notified)].type = "global")
    /\ Becomes(PersistAndWait(Cur))
    /\ UNCHANGED <<envVars, storage, events, redirected, restored, initVars>>

\* showWarning("global"): the callback of chrome.tabs.query({}) sends every
\* trackable tab to the blocking page
RedirectTabs ==
    /\ redirectPending
    /\ redirectPending' = FALSE
    /\ redirected' = redirected \cup TabsToBlock(tabUrl)
    /\ tabUrl' = [t \in Tabs |-> IF t \in TabsToBlock(tabUrl) THEN UrlBlocked
                                 ELSE tabUrl[t]]
    /\ UNCHANGED <<now, today, storeVars, currentSettings, timeTrackers, passVars,
                   notified, histVars, initVars>>

\* A pass that ends with the flag as it finds it
KeepsFlag(upd) == upd

\* The finally block of updateTimeUsage: this.isUpdating = false
finallyBlock(upd) == FALSE

\* updateTimeUsage resumed after persistSessions: finally
PersistDone ==
    /\ pc = "persisting"
    /\ ~Awaited(pending, "pass")
    /\ pc' = "idle"
    /\ isUpdating' = finallyBlock(isUpdating)
    /\ UNCHANGED <<envVars, storeVars, currentSettings, timeTrackers, pass,
                   outVars, histVars, initVars>>

\* chrome.storage.local.set rejects the write of the last persistSessions of
\* a pass: persistSessions logs the error and returns, then finally
PersistFails ==
    /\ pc = "persisting"
    /\ Awaited(pending, "pass")
    /\ pending' = SelectSeq(pending, LAMBDA w : w.waiter # "pass")
    /\ pc' = "idle"
    /\ isUpdating' = finallyBlock(isUpdating)
    /\ UNCHANGED <<envVars, storage, events, currentSettings, timeTrackers, pass,
                   outVars, histVars, initVars>>

(* ------------------------ limit store requests ------------------------ *)
SiteInputs == {<<"shop.com">>, <<"https://", "www.", "shop.com", "/cart">>,
               <<"news.com">>}

\* The limit of a request as it arrives: a number, in tenths of a minute,
\* or a value that is not a number (NaN, a non-numeric string)
Tenths(t) == [kind |-> "number", tenths |-> t]
Minutes(n) == Tenths(10 * n)
NotANumber == [kind |-> "NaN", tenths |-> 0]

\* !limit
Falsy(limit) == limit.kind = "NaN" \/ limit.tenths = 0

\* isNaN(limit)
isNaN(limit) == limit.kind = "NaN"

\* parseInt(limit) of a number: the digits before the decimal point
ParseLimit(limit) ==
    IF limit.tenths >= 0 THEN limit.tenths \div 10 ELSE -((-limit.tenths) \div 10)

LimitInputs == {Minutes(n) : n \in 0..MaxLimit}
GlobalLimitInputs == {Null} \cup {Some(n) : n \in 0..MaxLimit}

\* findIndex(s => normalizeDomain(s.site) === normalizedSite), 0 for -1
FindSite(siteLimits, normalizedSite) ==
    IF \E i \in 1..Len(siteLimits) : normalizeDomain(siteLimits[i].site) = normalizedSite
    THEN CHOOSE i \in 1..Len(siteLimits) :
            /\ normalizeDomain(siteLimits[i].site) = normalizedSite
            /\ \A j \in 1..(i - 1) : normalizeDomain(siteLimits[j].site) # normalizedSite
    ELSE 0

\* !limit || isNaN(limit) || parseInt(limit) <= 0
InvalidLimit(limit) == Falsy(limit) \/ isNaN(limit) \/ ParseLimit(limit) <= 0

\* The results sent back to the caller
ErrInvalidDomain == "Invalid domain format. Please use format like 'example.com'"
ErrInvalidLimit == "Please enter a valid time limit (positive number)"
ErrNotFound == "Site limit not found"
Success == [success |-> TRUE, error |-> ""]
Failure(message) == [success |-> FALSE, error |-> message]

\* An add that always pushes a new entry
PushSite(siteLimits, normalizedSite, limit) ==
    Append(siteLimits, [site |-> normalizedSite, limit |-> limit,
                        used |-> 0, enabled |-> TRUE])

UpsertSite(siteLimits, normalizedSite, limit) ==
    LET i == FindSite(siteLimits, normalizedSite)
    IN  IF i # 0
        THEN [siteLimits EXCEPT ![i] = [site |-> normalizedSite, limit |-> limit,
                                        used |-> siteLimits[i].used, enabled |-> TRUE]]
        ELSE Append(siteLimits, [site |-> normalizedSite, limit |-> limit,
                                 used |-> 0, enabled |-> TRUE])

addSiteLimit(m, site, limit) ==
    IF normalizeDomain(site) = <<>> \/ InvalidLimit(limit)
    THEN m
    ELSE saveSettings([m EXCEPT !.cs.siteLimits =
                                   UpsertSite(@, normalizeDomain(site),
                                              ParseLimit(limit))],
                      "none")

\* What addSiteLimit returns
addSiteLimitResult(m, site, limit) ==
    IF normalizeDomain(site) = <<>> THEN Failure(ErrInvalidDomain)
    ELSE IF InvalidLimit(limit) THEN Failure(ErrInvalidLimit)
    ELSE Success

\* A removal that persists whether or not an entry was removed
RemoveAndSave(m, site) ==
    saveSettings([m EXCEPT !.cs.siteLimits =
                     SelectSeq(@, LAMBDA s : normalizeDomain(s.site) # normalizeDomain(site))],
                 "none")

removeSiteLimit(m, site) ==
    LET kept == SelectSeq(m.cs.siteLimits,
                          LAMBDA s : normalizeDomain(s.site) # normalizeDomain(site))
    IN  IF Len(kept) = Len(m.cs.siteLimits)
        THEN m
        ELSE saveSettings([m EXCEPT !.cs.siteLimits = kept], "none")

toggleSiteLimit(m, site, enabled) ==
    LET i == FindSite(m.cs.siteLimits, normalizeDomain(site))
    IN  IF i = 0
        THEN m
        ELSE saveSettings([m EXCEPT !.cs.siteLimits[i].enabled = enabled], "none")

\* What removeSiteLimit and toggleSiteLimit return
removeSiteLimitResult(m, site) ==
    IF FindSite(m.cs.siteLimits, normalizeDomain(site)) = 0
    THEN Failure(ErrNotFound) ELSE Success

toggleSiteLimitResult(m, site, enabled) ==
    IF FindSite(m.cs.siteLimits, normalizeDomain(site)) = 0
    THEN Failure(ErrNotFound) ELSE Success

\* message.trim()
TrimMessage(message) ==
    CASE message = " Enough for today. " -> "Enough for today."
      [] message = "  " -> ""
      [] OTHER -> message

MessageInputs == {"", "  ", " Enough for today. "}

\* An update of the daily limit that starts the day's count afresh
UpdateAndResetUsed(m, limit, message) ==
    saveSettings([m EXCEPT !.cs.globalDailyLimit = IF Truthy(limit) THEN limit ELSE Null,
                           !.cs.globalUsed = 0,
                           !.cs.timeRestrictionsEnabled = Truthy(limit)],
                 "none")

updateGlobalLimit(m, limit, message) ==
    saveSettings([m EXCEPT !.cs.globalDailyLimit = IF Truthy(limit) THEN limit ELSE Null,
                           !.cs.warningMessage =
                               IF message # "" /\ TrimMessage(message) # ""
                               THEN TrimMessage(message) ELSE @,
                           !.cs.timeRestrictionsEnabled = Truthy(limit)],
                 "none")

\* A message of the popup: the fields a handler does not read are absent
\* in the source and carry a filler here
Request(action, site, limit, enabled, dailyLimit, message) ==
    [action |-> action, site |-> site, limit |-> limit, enabled |-> enabled,
     dailyLimit |-> dailyLimit, message |-> message]

StatsOf(cs) ==
    [globalUsed |-> cs.globalUsed, globalLimit |-> cs.globalDailyLimit,
     siteLimits |-> cs.siteLimits, enabled |-> cs.timeRestrictionsEnabled,
     warningMessage |-> cs.warningMessage]

\* The switch of handleTimeMessage: the memory after the operation, and
\* the result of the operation
Dispatch(m, r) ==
    CASE r.action = "time_addSiteLimit" ->
           [mem |-> addSiteLimit(m, r.site, r.limit),
            result |-> addSiteLimitResult(m, r.site, r.limit)]
      [] r.action = "time_removeSiteLimit" ->
           [mem |-> removeSiteLimit(m, r.site),
            result |-> removeSiteLimitResult(m, r.site)]
      [] r.action = "time_toggleSiteLimit" ->
           [mem |-> toggleSiteLimit(m, r.site, r.enabled),
            result |-> toggleSiteLimitResult(m, r.site, r.enabled)]
      [] r.action = "time_updateGlobalLimit" ->
           [mem |-> updateGlobalLimit(m, r.dailyLimit, r.message), result |-> Success]
      [] r.action = "time_getStats" ->
           [mem |-> m,
            result |-> [success |-> TRUE, error |-> "", data |-> StatsOf(m.cs)]]
      [] r.action = "time_getActiveSessions" ->
           [mem |-> m, result |-> [success |-> TRUE, error |-> "", data |-> m.tt]]
      [] OTHER ->
           [mem |-> m, result |-> Failure("Unknown time action: " \o r.action)]

\* A handler that answers the actions it knows and no other
AnswerKnownActions(m, r) ==
    [mem |-> Dispatch(m, r).mem,
     sent |-> IF Dispatch(m, r).result.success THEN <<Dispatch(m, r).result>> ELSE <<>>]

\* handleTimeMessage: the memory it leaves and the responses it sends
handleTimeMessage(m, r) ==
    [mem |-> Dispatch(m, r).mem, sent |-> <<Dispatch(m, r).result>>]

RequestFrame ==
    UNCHANGED <<envVars, storage, events, redirected, redirectPending, restored,
                initVars>>

AddSiteLimit(site, limit) ==
    /\ listening
    /\ Becomes(addSiteLimit(Cur, site, limit))
    /\ RequestFrame

RemoveSiteLimit(site) ==
    /\ listening
    /\ Becomes(removeSiteLimit(Cur, site))
    /\ RequestFrame

ToggleSiteLimit(site, enabled) ==
    /\ listening
    /\ Becomes(toggleSiteLimit(Cur, site, enabled))
    /\ RequestFrame

\* runtime.onMessage with an action that starts with time_
TimeMessage(r) ==
    /\ listening
    /\ Becomes(handleTimeMessage(Cur, r).mem)
    /\ RequestFrame

UpdateGlobalLimit(limit, message) ==
    /\ listening
    /\ Becomes(updateGlobalLimit(Cur, limit, message))
    /\ RequestFrame

(* --------------------------- specification ---------------------------- *)
Next ==
    \/ Tick(MaxTicks)
    \/ DayChange
    \/ \E t \in Tabs, url \in NavUrls : TabNavigate(t, url)
    \/ \E t \in Tabs : TabActivate(t)
    \/ \E t \in Tabs : TabClose(t)
    \/ StorageCommit
    \/ DeliverChange
    \/ LoadSettings
    \/ InitResume
    \/ StartupScan
    \/ Restart
    \/ TimerFire
    \/ ProbeAnswer
    \/ SaveDone
    \/ NotifyDone
    \/ RedirectTabs
    \/ PersistDone
    \/ \E site \in SiteInputs, limit \in LimitInputs : AddSiteLimit(site, limit)
    \/ \E site \in SiteInputs : RemoveSiteLimit(site)
    \/ \E site \in SiteInputs, enabled \in BOOLEAN : ToggleSiteLimit(site, enabled)
    \/ \E limit \in GlobalLimitInputs, message \in MessageInputs :
          UpdateGlobalLimit(limit, message)

Spec == Init /\ [][Next]_vars

(* ------------------ the running engine, limits drawn ------------------ *)
\* A profile on which the user has configured limits: the engine has
\* started, its listeners are registered, the startup scan has answered and
\* the timer was armed at time 0. The registry holds a session, created and
\* persisted at time 0, for every tab of urls that is on a trackable url.
FreshMemory ==
    [tt |-> <<>>, q |-> <<>>, cs |-> EmptyMap, pc |-> "idle", p |-> NoPass,
     upd |-> FALSE, ntf |-> <<>>, os |-> NoHistory, cr |-> NoHistory,
     lp |-> NoHistory, ev |-> 0, ct |-> 0]

SessionsAt(urls, time) == ScanTabs(FreshMemory, 1, urls, time)

Running(cs, urls, time) ==
    /\ now = time
    /\ today = 0
    /\ tabUrl = urls
    /\ storage = [k \in SettingsKeys \cup {"trackingSessions"} |->
                    IF k = "trackingSessions" THEN Snapshot(SessionsAt(urls, 0).tt)
                    ELSE cs[k]]
    /\ pending = <<>>
    /\ events = <<>>
    /\ currentSettings = Restrict(cs, SettingsKeys)
    /\ timeTrackers = SessionsAt(urls, 0).tt
    /\ isUpdating = FALSE
    /\ timerDue = Some(TimerInterval)
    /\ listening = TRUE
    /\ initPc = "ready"
    /\ scanPending = FALSE
    /\ pc = "idle"
    /\ pass = NoPass
    /\ notified = <<>>
    /\ redirected = {}
    /\ redirectPending = FALSE
    /\ restarts = 0
    /\ origStart = SessionsAt(urls, 0).os
    /\ credited = SessionsAt(urls, 0).cr
    /\ lastPassAt = NoHistory
    /\ evaluated = 0
    /\ counted = 0
    /\ restored = NoHistory

AllClosed == [t \in Tabs |-> NoTab]

SiteLimit(site, limit, used, enabled) ==
    [site |-> site, limit |-> limit, used |-> used, enabled |-> enabled]

WithLimits(globalLimit, globalUsed, siteLimits) ==
    [Defaults(0) EXCEPT !.timeRestrictionsEnabled = TRUE,
                        !.globalDailyLimit = Some(globalLimit),
                        !.globalUsed = globalUsed,
                        !.siteLimits = siteLimits]

PassSteps ==
    \/ TimerFire
    \/ ProbeAnswer
    \/ SaveDone
    \/ PersistDone
    \/ StorageCommit
    \/ DeliverChange

WarningSteps ==
    \/ NotifyDone
    \/ RedirectTabs

(* One tab, a daily limit of 30 minutes that is never reached: sessions are
   created, replaced and removed at any time and passes run on the timer. *)
ScenarioLimit == 30
PassTabs == 1..NumPassTabs
PassUrls == {UrlNews, UrlInternal}

InitPass == Running(WithLimits(ScenarioLimit, 0, <<>>), AllClosed, 0)

NextPass ==
    \/ Tick(MaxTicks)
    \/ \E t \in PassTabs, url \in PassUrls : TabNavigate(t, url)
    \/ \E t \in PassTabs : TabClose(t)
    \/ PassSteps

SpecPass == InitPass /\ [][NextPass]_vars

(* ------------- applyTimeUpdates on drawn stores and totals ------------- *)
\* The entries the store can hold for a site with used <= limit
EntriesFor(site) ==
    {SiteLimit(site, x[1], x[2], x[3]) :
        x \in {y \in (1..MaxLimit) \X (0..MaxLimit) \X BOOLEAN : y[2] <= y[1]}}

DrawnSiteLimits ==
    {<<a>> : a \in EntriesFor(SiteNews)}
       \cup {<<a, b>> : a \in EntriesFor(SiteNews), b \in EntriesFor(SiteShop)}

\* siteTimeUpdates of a pass: whole minutes per hostname of a counted session
MaxCredit == 3
CreditedHosts == {SiteNews, SiteShop, <<"docs.org">>}
DrawnSiteTimes ==
    UNION {[hosts -> 1..MaxCredit] : hosts \in (SUBSET CreditedHosts) \ {{}}}

\* globalTimeAdded of the pass that collected siteTimes
RECURSIVE SumOf(_)
SumOf(siteTimes) ==
    IF DOMAIN siteTimes = {} THEN 0
    ELSE LET h == CHOOSE x \in DOMAIN siteTimes : TRUE
         IN  siteTimes[h] + SumOf([x \in DOMAIN siteTimes \ {h} |-> siteTimes[x]])

InitApply ==
    \E siteLimits \in DrawnSiteLimits, hasGlobal \in BOOLEAN :
       Running([WithLimits(ScenarioLimit, 0, siteLimits) EXCEPT
                   !.globalDailyLimit = IF hasGlobal THEN @ ELSE Null],
               AllClosed, 0)

\* applyTimeUpdates(globalTime, siteTimes), the store it leaves in memory
ApplyUsage(siteTimes) ==
    /\ counted + SumOf(siteTimes) <= ScenarioLimit
    /\ currentSettings' =
          [ApplyGlobalUsage(currentSettings, SumOf(siteTimes)) EXCEPT
              !.siteLimits = ApplySiteLimits(@, siteTimes)]
    /\ counted' = counted + SumOf(siteTimes)
    /\ UNCHANGED <<envVars, storeVars, timeTrackers, passVars, outVars, origStart,
                   credited, lastPassAt, evaluated, restored, initVars>>

NextApply == \E siteTimes \in DrawnSiteTimes : ApplyUsage(siteTimes)

SpecApply == InitApply /\ [][NextApply]_vars

(* ------- one tab on shop.com, its limit used up, requests arriving ------ *)
\* The user limited shop.com to MaxLimit minutes and has browsed them today.
StoreUrls == [AllClosed EXCEPT ![1] = UrlShop]

InitStore ==
    Running(WithLimits(ScenarioLimit, MaxLimit,
                       <<SiteLimit(SiteShop, MaxLimit, MaxLimit, TRUE)>>),
            StoreUrls, 0)

StoreSites == {<<"https://", "www.", "shop.com", "/cart">>}
StoreLimits == {Minutes(n) : n \in 1..MaxLimit}
StoreGlobalLimits == {Null, Some(ScenarioLimit)}

\* The popup sends a request when the store has settled after the last one
StoreRequest ==
    /\ pending = <<>>
    /\ events = <<>>
    /\ \/ \E site \in StoreSites, limit \in StoreLimits : AddSiteLimit(site, limit)
       \/ \E site \in StoreSites : RemoveSiteLimit(site)
       \/ \E site \in StoreSites, enabled \in BOOLEAN : ToggleSiteLimit(site, enabled)
       \/ \E limit \in StoreGlobalLimits : UpdateGlobalLimit(limit, "")

NextStore ==
    \/ Tick(MaxTicks)
    \/ DayChange
    \/ PassSteps
    \/ NotifyDone
    \/ StoreRequest
    \/ Restart
    \/ LoadSettings
    \/ InitResume
    \/ StartupScan

SpecStore == InitStore /\ [][NextStore]_vars

(* ------ passes over drawn stores and tabs: evaluator and warnings ------ *)
\* Tab 1 shows a limited site; the other tabs show a site, an internal page
\* or are closed. Every trackable tab has a session since time 0.
EvalUrls ==
    {urls \in [Tabs -> {UrlNews, UrlShop, UrlInternal, NoTab}] :
        urls[1] \in {UrlNews, UrlShop}}

EvalTicks == 4

InitEval ==
    \E siteLimits \in DrawnSiteLimits, globalUsed \in {0, ScenarioLimit - 1},
       urls \in EvalUrls :
       Running(WithLimits(ScenarioLimit, globalUsed, siteLimits), urls, 0)

NextEval ==
    \/ Tick(EvalTicks)
    \/ PassSteps
    \/ WarningSteps

SpecEval == InitEval /\ [][NextEval]_vars

(* ------- tabs come and go, passes run, the process is restarted -------- *)
\* Tab 1 is on news.com with a session since time 0, persisted.
RestartUrls == [AllClosed EXCEPT ![1] = UrlNews]
RestartTicks == 2

InitRestart == Running(WithLimits(ScenarioLimit, 0, <<>>), RestartUrls, 0)

NextRestart ==
    \/ Tick(RestartTicks)
    \/ \E t \in Tabs, url \in PassUrls : TabNavigate(t, url)
    \/ \E t \in Tabs : TabClose(t)
    \/ PassSteps
    \/ Restart
    \/ LoadSettings
    \/ StartupScan

SpecRestart == InitRestart /\ [][NextRestart]_vars

(* ---- one tab, passes, and a restart at any point, also inside a pass ---- *)
\* The answer of the startup scan arrives before the clock moves on.
CrashTick == ~scanPending /\ Tick(MaxTicks)

NextCrash ==
    \/ CrashTick
    \/ \E t \in PassTabs, url \in PassUrls : TabLoading(t, url)
    \/ \E t \in PassTabs, url \in PassUrls : TabNavigate(t, url)
    \/ PassSteps
    \/ Restart
    \/ LoadSettings
    \/ StartupScan

SpecCrash == InitRestart /\ [][NextCrash]_vars

(* ----- two tabs navigate, are activated and close; passes; a restart ----- *)
NextTabs ==
    \/ Tick(RestartTicks)
    \/ \E t \in Tabs, url \in PassUrls : TabNavigate(t, url)
    \/ \E t \in Tabs : TabActivate(t)
    \/ \E t \in Tabs : TabClose(t)
    \/ PassSteps
    \/ Restart
    \/ LoadSettings
    \/ StartupScan

SpecTabs == InitRestart /\ [][NextTabs]_vars

(* ============================ properties ============================== *)
MsPerMinute == MsPerSecond * SecondsPerMinute

SessionOf(t) == timeTrackers[IndexOfTab(timeTrackers, t)]

\* The session of tab t is as its creation and the passes since left it:
\* startTime moved by whole minutes only, one per minute counted for it, and
\* the minutes counted up to the last pass are the whole minutes since creation
SessionAccounted(t) ==
    HasTracker(timeTrackers, t) =>
       /\ SessionOf(t).startTime = Val(origStart[t]) + Val(credited[t]) * MsPerMinute
       /\ (lastPassAt[t] # Null /\ Val(lastPassAt[t]) >= Val(origStart[t])) =>
             /\ SessionOf(t).lastUpdate <= Val(lastPassAt[t])
             /\ Val(credited[t])
                   = (Val(lastPassAt[t]) - Val(origStart[t])) \div MsPerMinute

\* The step in which a pass that started at pass.now gets the answer of the
\* probe of tab t, whose session it still holds
PassCounts(t) ==
    /\ pc = "probe"
    /\ pass.tabId = t
    /\ pass.live
    /\ HasTracker(timeTrackers, t)
    /\ isTrackableUrl(tabUrl[t])
    /\ pass.now >= SessionOf(t).startTime
    /\ currentSettings.timeRestrictionsEnabled
    /\ Truthy(currentSettings.globalDailyLimit)
    /\ (pc' # "probe" \/ pass'.tabId # t)

\* What that step does with the m whole minutes since the session's startTime
PassCredits(t) ==
    LET m == (pass.now - SessionOf(t).startTime) \div MsPerMinute
    IN  /\ HasTracker(timeTrackers', t)
        /\ SessionOf(t)'.startTime = SessionOf(t).startTime + m * MsPerMinute
        /\ SessionOf(t)'.hostname = SessionOf(t).hostname
        /\ Val(credited'[t]) = Val(credited[t]) + m
        /\ counted' = counted + m
        /\ pc' # "probe" =>
              currentSettings'.globalUsed
                 = currentSettings.globalUsed + pass.globalTimeAdded + m

(* C1. Exactly-once minute accounting. With tracking enabled and a global
   limit set, the step of a pass at time `now` that processes a session it
   still holds credits exactly floor((now - startTime) / 60 s) minutes (they
   are added to globalUsed when the pass applies its totals)
   and moves startTime forward by exactly that many whole minutes; and for
   every session, as long as it is neither replaced nor removed, the minutes
   credited in total are floor((time of last pass - original startTime) / 60 s)
   and startTime is the original startTime plus that many minutes. *)
ExactlyOnceAccounting ==
    [][/\ \A t \in Tabs : PassCounts(t) => PassCredits(t)
       /\ \A t \in Tabs : SessionAccounted(t)']_vars

\* Scenario A: a session since t0 = 0, passes at t0 + 90 s and t0 + 150 s
ScenarioAReached ==
    \E t \in Tabs :
       /\ HasTracker(timeTrackers, t)
       /\ origStart[t] = Some(0)
       /\ lastPassAt[t] = Some(150000)
       /\ SessionOf(t).lastUpdate = 150000
       /\ SessionOf(t).startTime = 120000
       /\ credited[t] = Some(2)
       /\ currentSettings.globalUsed = 2
       /\ pc = "idle"
       /\ notified = <<>>

(* C2. Monotonic clamped usage. Starting from a store in which every used is
   at most its limit, every application of applyTimeUpdates leaves every
   entry with its site, limit and enabled flag, with used at most its limit
   and with used not below what it was. *)
UsageClampedAndMonotonic ==
    [][/\ Len(currentSettings'.siteLimits) = Len(currentSettings.siteLimits)
       /\ \A i \in 1..Len(currentSettings.siteLimits) :
             LET before == currentSettings.siteLimits[i]
                 after == currentSettings'.siteLimits[i]
             IN  /\ after = [before EXCEPT !.used = after.used]
                 /\ after.used <= after.limit
                 /\ after.used >= before.used]_vars

\* Minutes were applied more than once and filled an enabled entry that had
\* room; a disabled entry credited by name kept its room
ClampedAtLimit ==
    /\ counted > MaxLimit
    /\ Len(currentSettings.siteLimits) = 2
    /\ currentSettings.siteLimits[1] = SiteLimit(SiteNews, MaxLimit, MaxLimit, TRUE)
    /\ storage.siteLimits[1] = SiteLimit(SiteNews, MaxLimit, 0, TRUE)
    /\ currentSettings.siteLimits[2].used < currentSettings.siteLimits[2].limit

\* The entries of the Limit Store in memory; none before loadSettings answered
StoredLimits(cs) == IF "siteLimits" \in DOMAIN cs THEN cs.siteLimits ELSE <<>>

(* C3. In every reachable state every SiteLimit of the store, in memory and
   as persisted, has 0 <= used <= limit. *)
UsedWithinLimit ==
    /\ \A i \in 1..Len(StoredLimits(currentSettings)) :
          /\ 0 <= currentSettings.siteLimits[i].used
          /\ currentSettings.siteLimits[i].used <= currentSettings.siteLimits[i].limit
    /\ \A i \in 1..Len(storage.siteLimits) :
          /\ 0 <= storage.siteLimits[i].used
          /\ storage.siteLimits[i].used <= storage.siteLimits[i].limit

(* C4. Within one calendar day no step of the engine lowers the used of a
   site: an entry that a step keeps in the store, with lastResetDate
   unchanged, has used at least what it was. *)
UsedNeverLowered ==
    [][\A i \in 1..Len(StoredLimits(currentSettings)),
          j \in 1..Len(StoredLimits(currentSettings')) :
          (/\ currentSettings'.siteLimits[j].site = currentSettings.siteLimits[i].site
           /\ currentSettings'.lastResetDate = currentSettings.lastResetDate)
          => currentSettings'.siteLimits[j].used >= currentSettings.siteLimits[i].used]_vars

(* ------------------------- evaluator and warnings ---------------------- *)
\* The step in which applyTimeUpdates resumes after its save: checkLimits runs
EvaluatorRuns == pc = "saving" /\ pc' # "saving"

\* The step in which showWarning resumes after its notification
WarningShown == pc = "notifying" /\ pc' # "notifying"

\* The step in which the answer of showWarning's tabs.query arrives
RedirectAnswered == redirectPending /\ ~redirectPending'

OverGlobal(cs) ==
    cs.globalDailyLimit # Null /\ cs.globalUsed >= Val(cs.globalDailyLimit)

OverSite(entry) == entry.enabled /\ entry.used >= entry.limit

IsGlobalWarning(n) ==
    n.type = "global" /\ n.message = <<currentSettings.warningMessage>>

NamesSite(n, site) ==
    /\ n.type = "site"
    /\ n.message = <<"Time limit reached for ">> \o site
                      \o <<". ", currentSettings.warningMessage>>

(* C5. Single intervention per pass. No pass dispatches more than one
   notification, and when the evaluator runs with the global limit and an
   enabled site limit both breached it dispatches exactly one notification,
   the global one. *)
SingleIntervention ==
    [][/\ Len(notified') <= 1
       /\ (/\ EvaluatorRuns
           /\ OverGlobal(currentSettings)
           /\ \E i \in 1..Len(currentSettings.siteLimits) :
                 OverSite(currentSettings.siteLimits[i]))
          => /\ Len(notified') = 1
             /\ IsGlobalWarning(notified'[1])]_vars

\* The evaluator has dispatched the global warning with a site breached too
GlobalWinsReached ==
    /\ pc = "notifying"
    /\ OverGlobal(currentSettings)
    /\ \E i \in 1..Len(currentSettings.siteLimits) :
          OverSite(currentSettings.siteLimits[i])
    /\ Len(notified) = 1
    /\ IsGlobalWarning(notified[1])

(* C6. When the evaluator runs and the global limit is not breached, it
   dispatches the site warning for the first entry in stored order that is
   enabled with used >= limit, skipping disabled entries, and dispatches
   nothing when no enabled entry is breached. *)
FirstBreachedSiteWarned ==
    [][(EvaluatorRuns /\ ~OverGlobal(currentSettings)) =>
          LET sl == currentSettings.siteLimits
          IN  IF \E i \in 1..Len(sl) : OverSite(sl[i])
              THEN \E i \in 1..Len(sl) :
                      /\ OverSite(sl[i])
                      /\ \A j \in 1..(i - 1) : ~OverSite(sl[j])
                      /\ Len(notified') = 1
                      /\ NamesSite(notified'[1], sl[i].site)
              ELSE notified' = <<>>]_vars

\* A disabled first entry at its limit was skipped for the second entry
DisabledSkippedReached ==
    /\ pc = "notifying"
    /\ ~OverGlobal(currentSettings)
    /\ Len(currentSettings.siteLimits) = 2
    /\ ~currentSettings.siteLimits[1].enabled
    /\ currentSettings.siteLimits[1].used >= currentSettings.siteLimits[1].limit
    /\ OverSite(currentSettings.siteLimits[2])
    /\ Len(notified) = 1
    /\ NamesSite(notified[1], currentSettings.siteLimits[2].site)

\* The step in which the loop of a pass ends and applyTimeUpdates applies
\* its totals
TotalsApplied == pc = "probe" /\ pc' = "saving"

\* Entry i is enabled and the pass attributed minutes to its hostname
Attributed(cs, siteTimes, i) ==
    /\ cs.siteLimits[i].enabled
    /\ cs.siteLimits[i].site \in DOMAIN siteTimes
    /\ siteTimes[cs.siteLimits[i].site] > 0

\* What a pass does for an enabled entry that its minutes fill, up to the
\* notification: used becomes the limit and no redirect is requested
FilledAndNotRedirected ==
    /\ TotalsApplied =>
          \A i \in 1..Len(currentSettings.siteLimits) :
             LET entry == currentSettings.siteLimits[i]
             IN  (/\ Attributed(currentSettings, pass'.siteTimeUpdates, i)
                  /\ entry.used + pass'.siteTimeUpdates[entry.site] >= entry.limit)
                 => currentSettings'.siteLimits[i] = [entry EXCEPT !.used = entry.limit]
    /\ (/\ EvaluatorRuns
        /\ ~OverGlobal(currentSettings)
        /\ \E i \in 1..Len(currentSettings.siteLimits) :
              /\ Attributed(currentSettings, pass.siteTimeUpdates, i)
              /\ OverSite(currentSettings.siteLimits[i]))
       => /\ Len(notified') = 1
          /\ notified'[1].type = "site"
          /\ redirectPending' = FALSE
          /\ redirected' = {}
    /\ (WarningShown /\ notified[Len(notified)].type = "site")
       => /\ redirectPending' = redirectPending
          /\ redirected' = redirected
          /\ tabUrl' = tabUrl

(* C7, as stated. When a pass attributes m minutes to a hostname that has an
   enabled SiteLimit with used + m >= limit and the global limit is not
   breached, used becomes exactly limit, exactly one notification is issued
   and it names that site, and no tab is redirected. *)
FilledSiteIsNamed ==
    [][/\ FilledAndNotRedirected
       /\ (EvaluatorRuns /\ ~OverGlobal(currentSettings)) =>
             \A i \in 1..Len(currentSettings.siteLimits) :
                (/\ Attributed(currentSettings, pass.siteTimeUpdates, i)
                 /\ OverSite(currentSettings.siteLimits[i]))
                => NamesSite(notified'[1], currentSettings.siteLimits[i].site)]_vars

(* C7, amended. In that case used becomes exactly limit, exactly one
   notification is issued and no tab is redirected; the notification names
   the first entry in stored order that is enabled with used >= limit, which
   is that site when no earlier enabled entry is breached. *)
FirstBreachedIsNamed ==
    [][/\ FilledAndNotRedirected
       /\ (EvaluatorRuns /\ ~OverGlobal(currentSettings)) =>
             \A i \in 1..Len(currentSettings.siteLimits) :
                (/\ Attributed(currentSettings, pass.siteTimeUpdates, i)
                 /\ OverSite(currentSettings.siteLimits[i]))
                => \E k \in 1..i :
                      /\ OverSite(currentSettings.siteLimits[k])
                      /\ \A j \in 1..(k - 1) : ~OverSite(currentSettings.siteLimits[j])
                      /\ NamesSite(notified'[1], currentSettings.siteLimits[k].site)]_vars

\* Minutes on shop.com alone filled its entry, and the warning names
\* news.com, the entry before it, which was at its limit already
EarlierSiteNamedReached ==
    /\ pc = "notifying"
    /\ ~OverGlobal(currentSettings)
    /\ tabUrl = [t \in Tabs |-> IF t = 1 THEN UrlShop ELSE NoTab]
    /\ Len(currentSettings.siteLimits) = 2
    /\ OverSite(currentSettings.siteLimits[1])
    /\ currentSettings.siteLimits[1].site = SiteNews
    /\ currentSettings.siteLimits[2] = SiteLimit(SiteShop, MaxLimit, MaxLimit, TRUE)
    /\ counted = MaxLimit
    /\ currentSettings.globalUsed = MaxLimit
    /\ Len(notified) = 1
    /\ NamesSite(notified[1], SiteNews)
    /\ ~redirectPending
    /\ redirected = {}

(* C8. A global warning requests the redirect: when the evaluator runs with
   globalUsed >= the daily limit it dispatches the global notification, and
   once that is shown the tabs are queried; the answer sends every open tab
   with a trackable url to the blocking page with reason=time_limit and
   leaves every other tab alone. A site warning requests no redirect, and
   no tab is redirected except by that answer. *)
GlobalBreachRedirects ==
    [][/\ (EvaluatorRuns /\ OverGlobal(currentSettings))
          => Len(notified') = 1 /\ IsGlobalWarning(notified'[1])
       /\ WarningShown
          => redirectPending' = (redirectPending \/ notified[Len(notified)].type = "global")
       /\ RedirectAnswered
          => \A t \in Tabs :
                IF isTrackableUrl(tabUrl[t])
                THEN t \in redirected' /\ tabUrl'[t] = UrlBlocked
                ELSE (t \in redirected' <=> t \in redirected) /\ tabUrl'[t] = tabUrl[t]
       /\ (~redirectPending /\ redirectPending')
          => WarningShown /\ notified[Len(notified)].type = "global"
       /\ (\E t \in Tabs : t \in redirected' \ redirected \/ (tabUrl'[t] = UrlBlocked /\ tabUrl[t] # UrlBlocked))
          => RedirectAnswered]_vars

\* After a global breach the trackable tab is on the blocking page and the
\* internal page was left alone
OnlyTrackableRedirectedReached ==
    /\ OverGlobal(currentSettings)
    /\ redirected = {1}
    /\ tabUrl[1] = UrlBlocked
    /\ tabUrl[2] = UrlInternal
    /\ "/blocked.html?reason=time_limit" \in {UrlBlocked[k] : k \in 1..Len(UrlBlocked)}
    /\ ~redirectPending

(* ------------------------- restart and restore ------------------------- *)
\* The step in which the tabs.query of startTimeTracking answers
ScanAnswered == scanPending /\ ~scanPending'

\* Tab t is open on the site of the session that loadSettings restored for it
StillOpenOnRestored(t) ==
    /\ restored[t] # Null
    /\ HasTracker(timeTrackers, t)
    /\ SessionOf(t).startTime = Val(restored[t])
    /\ isTrackableUrl(tabUrl[t])
    /\ HostnameOf(tabUrl[t]) = SessionOf(t).hostname

(* C9. Scenario D. When the process restarts with a persisted session
   {hostname, startTime: T} for a tab that is still open on that site,
   startup leaves that session in the registry with startTime T: the answer
   of the startup scan does not change it, so that the next pass measures
   from T. *)
RestoredSessionKept ==
    [][ScanAnswered =>
          \A t \in Tabs :
             StillOpenOnRestored(t) =>
                /\ HasTracker(timeTrackers', t)
                /\ SessionOf(t)'.startTime = Val(restored[t])]_vars

\* The registry as a set of entries
EntrySet(tt) == {tt[i] : i \in 1..Len(tt)}

\* The step in which loadSettings gets the stored data
SettingsLoaded == initPc = "loading" /\ initPc' # "loading"

(* C10. Persist/restore round trip. When the engine runs, no pass is under
   way and every issued write has been committed, the persisted
   trackingSessions is the snapshot of the registry; and loadSettings at
   process start rebuilds from the persisted snapshot a registry with the
   same tab ids, hostnames, startTimes and lastUpdates, whose snapshot is
   the persisted one again. *)
PersistRestoreRoundTrip ==
    [][/\ (initPc' = "ready" /\ pc' = "idle" /\ pending' = <<>>) =>
             /\ storage'.trackingSessions = Snapshot(timeTrackers')
             /\ EntrySet(RestoreTrackers(storage'.trackingSessions))
                   = EntrySet(timeTrackers')
       /\ SettingsLoaded =>
             /\ \A k \in DOMAIN storage.trackingSessions :
                   \E e \in EntrySet(timeTrackers') :
                      /\ KeyOf(e.tabId) = k
                      /\ SessionValue(e) = storage.trackingSessions[k]
             /\ \A e \in EntrySet(timeTrackers') :
                   KeyOf(e.tabId) \in DOMAIN storage.trackingSessions
             /\ Len(timeTrackers') = Cardinality(DOMAIN storage.trackingSessions)
             /\ Snapshot(timeTrackers') = storage.trackingSessions]_vars

\* After the restart the registry was rebuilt from a snapshot of two
\* sessions, that of tab 1 advanced by a pass that counted its first minute
TwoSessionsRestored ==
    /\ restarts = 1
    /\ initPc = "ready"
    /\ Len(timeTrackers) = 2
    /\ \A t \in 1..2 : restored[t] = Some(SessionOf(t).startTime)
    /\ counted >= 1
    /\ SessionOf(1).startTime = TimerInterval
    /\ storage.trackingSessions = Snapshot(timeTrackers)
    /\ pending = <<>>

(* ------------------------- crediting across restarts ------------------- *)
(* C11. No double-counting across restarts. With a single tab, tracked from
   time 0 on, and globalUsed 0 at time 0, every minute credited to
   globalUsed is a whole minute that elapsed since then: wherever the
   process is terminated and restarted, globalUsed, in memory and as
   persisted, never exceeds the whole minutes elapsed, which it would if a
   minute were credited twice. *)
NoMinuteCreditedTwice ==
    /\ storage.globalUsed <= now \div MsPerMinute
    /\ "globalUsed" \in DOMAIN currentSettings
          => currentSettings.globalUsed <= now \div MsPerMinute

(* ----------------------------- the registry ---------------------------- *)
\* The entries of the registry tt for tab t
SessionsOf(tt, t) == {i \in 1..Len(tt) : tt[i].tabId = t}

(* C12. No double session. In every reachable state the registry holds at
   most one session per tab, and an upsert for tab t on a trackable url
   (handleTabUpdate, as navigation and activation call it) leaves exactly
   one session for t, the fresh {hostname of url, startTime: now,
   lastUpdate: now}, in the place of the one t had if it had one, and every
   other session as it was. *)
OneSessionPerTab ==
    /\ \A t \in Tabs : Cardinality(SessionsOf(timeTrackers, t)) <= 1
    /\ \A t \in Tabs, url \in {UrlNews, UrlShop} :
          LET after == handleTabUpdate(Cur, t, url, now).tt
              fresh == [tabId |-> t, hostname |-> HostnameOf(url),
                        startTime |-> now, lastUpdate |-> now]
          IN  /\ Cardinality(SessionsOf(after, t)) = 1
              /\ \A i \in SessionsOf(after, t) : after[i] = fresh
              /\ IF SessionsOf(timeTrackers, t) # {}
                 THEN /\ Len(after) = Len(timeTrackers)
                      /\ SessionsOf(after, t) = SessionsOf(timeTrackers, t)
                 ELSE Len(after) = Len(timeTrackers) + 1
              /\ \A i \in 1..Len(timeTrackers) :
                    timeTrackers[i].tabId # t => after[i] = timeTrackers[i]

\* The session of tab 1, created at time 0 before that of tab 2, was
\* replaced in its place at the first clock step
SessionReplacedInPlace ==
    /\ restarts = 0
    /\ timeTrackers = <<NewSession(1, UrlNews, ClockStep), NewSession(2, UrlNews, 0)>>

(* ------------------------ limit store requests ------------------------ *)
(* The popup adds, removes and toggles site limits and sets the daily limit,
   with well-formed and ill-formed arguments; the write of a request commits
   and its change notification is delivered before the next request. *)
BadDomain == <<"BAD_DOMAIN">>
LimitSites == {<<"shop.com">>, <<"https://", "www.", "shop.com", "/cart">>,
               <<"news.com">>, BadDomain, <<"https://">>}
LimitValues == {Minutes(-1), Minutes(0), NotANumber, Tenths(5), Tenths(15),
                Minutes(1), Minutes(MaxLimit)}
GlobalLimitValues == {Null, Some(0), Some(MaxLimit)}

InitLimits ==
    Running(WithLimits(ScenarioLimit, 1, <<SiteLimit(SiteShop, MaxLimit, 1, TRUE)>>),
            AllClosed, 0)

\* The popup sends a request when the store has settled after the last one
LimitRequest ==
    /\ pending = <<>>
    /\ events = <<>>
    /\ \/ \E site \in LimitSites, limit \in LimitValues : AddSiteLimit(site, limit)
       \/ \E site \in LimitSites : RemoveSiteLimit(site)
       \/ \E site \in LimitSites, enabled \in BOOLEAN : ToggleSiteLimit(site, enabled)
       \/ \E limit \in GlobalLimitValues, message \in MessageInputs :
             UpdateGlobalLimit(limit, message)

NextLimits ==
    \/ LimitRequest
    \/ StorageCommit
    \/ DeliverChange

SpecLimits == InitLimits /\ [][NextLimits]_vars

\* The site limits in memory, in a queued write and in the store
SiteLimitLists ==
    {currentSettings.siteLimits, storage.siteLimits}
      \cup {pending[i].items.siteLimits :
               i \in {j \in 1..Len(pending) : "siteLimits" \in DOMAIN pending[j].items}}

HasSite(siteLimits, site) == \E i \in 1..Len(siteLimits) : siteLimits[i].site = site

(* C14. addSiteLimit with the malformed domain "BAD_DOMAIN" and a valid
   limit answers {success: false}, changes no site limit and issues no
   write, so no list of site limits ever holds an entry made from it. *)
MalformedDomainRejected ==
    /\ ~addSiteLimitResult(Cur, BadDomain, Minutes(MaxLimit)).success
    /\ addSiteLimit(Cur, BadDomain, Minutes(MaxLimit)).cs = currentSettings
    /\ addSiteLimit(Cur, BadDomain, Minutes(MaxLimit)).q = pending
    /\ \A sl \in SiteLimitLists : ~HasSite(sl, normalizeDomain(BadDomain))

IsPositiveInteger(limit) ==
    limit.kind = "number" /\ limit.tenths > 0 /\ limit.tenths % 10 = 0

(* C15. addSiteLimit with a limit that is not a positive integer (zero,
   negative, not a number, or fractional) answers {success: false}, changes
   no site limit and issues no write, whatever the site. *)
NonIntegerLimitRejected ==
    \A site \in LimitSites, limit \in LimitValues :
        ~IsPositiveInteger(limit) =>
            /\ ~addSiteLimitResult(Cur, site, limit).success
            /\ addSiteLimit(Cur, site, limit).cs = currentSettings
            /\ addSiteLimit(Cur, site, limit).q = pending

NoDuplicateSite(siteLimits) ==
    \A i, j \in 1..Len(siteLimits) :
        normalizeDomain(siteLimits[i].site) = normalizeDomain(siteLimits[j].site) => i = j

AcceptedAdd(site, limit) == normalizeDomain(site) # <<>> /\ ~InvalidLimit(limit)

(* C16. addSiteLimit with accepted input is an upsert by normalized site.
   In every reachable state and for every accepted request: if an entry
   with the normalized site exists, it is replaced in place by one with the
   new limit and the same used; otherwise an entry with used 0 and enabled
   is appended; the other entries are untouched; the same request issued
   again changes neither the settings nor the contents written to the
   store. No list of site limits ever holds two entries of one site. *)
UpsertByNormalizedSite ==
    /\ \A sl \in SiteLimitLists : NoDuplicateSite(sl)
    /\ \A site \in LimitSites, limit \in LimitValues :
          AcceptedAdd(site, limit) =>
            LET key == normalizeDomain(site)
                old == currentSettings.siteLimits
                once == addSiteLimit(Cur, site, limit)
                twice == addSiteLimit(once, site, limit)
                new == once.cs.siteLimits
                i == FindSite(old, key)
            IN  /\ addSiteLimitResult(Cur, site, limit).success
                /\ IF i # 0
                   THEN /\ Len(new) = Len(old)
                        /\ new[i] = SiteLimit(key, ParseLimit(limit), old[i].used, TRUE)
                        /\ \A j \in 1..Len(old) : j # i => new[j] = old[j]
                   ELSE new = Append(old, SiteLimit(key, ParseLimit(limit), 0, TRUE))
                /\ NoDuplicateSite(new)
                /\ twice.cs = once.cs
                /\ twice.q[Len(twice.q)].items = once.q[Len(once.q)].items

\* The limit of shop.com was replaced by 1 with its used minute kept, and
\* a limit for news.com was added behind it; both are in the store
UpsertedAndAppended ==
    /\ pending = <<>>
    /\ storage.siteLimits = <<SiteLimit(SiteShop, 1, 1, TRUE),
                              SiteLimit(SiteNews, MaxLimit, 0, TRUE)>>
    /\ currentSettings.siteLimits = storage.siteLimits

\* The sequence s without its i-th element
Without(s, i) == SubSeq(s, 1, i - 1) \o SubSeq(s, i + 1, Len(s))

LastWrite(m) == m.q[Len(m.q)].items

(* C17. In every reachable state and for every site argument:
   removeSiteLimit and toggleSiteLimit of a site that has no entry answer
   {success: false, error: "Site limit not found"}, leave the site limits
   as they are and issue no write; of a site that has an entry they answer
   success, remove exactly that entry, respectively set the enabled flag of
   that entry only, and write the result to the store. *)
RemoveAndToggleByKey ==
    \A site \in LimitSites, enabled \in BOOLEAN :
        LET old == currentSettings.siteLimits
            i == FindSite(old, normalizeDomain(site))
            removed == removeSiteLimit(Cur, site)
            toggled == toggleSiteLimit(Cur, site, enabled)
        IN  IF i = 0
            THEN /\ removeSiteLimitResult(Cur, site) = Failure(ErrNotFound)
                 /\ toggleSiteLimitResult(Cur, site, enabled) = Failure(ErrNotFound)
                 /\ removed.cs = currentSettings /\ removed.q = pending
                 /\ toggled.cs = currentSettings /\ toggled.q = pending
            ELSE /\ removeSiteLimitResult(Cur, site).success
                 /\ toggleSiteLimitResult(Cur, site, enabled).success
                 /\ removed.cs = [currentSettings EXCEPT !.siteLimits = Without(old, i)]
                 /\ toggled.cs = [currentSettings EXCEPT !.siteLimits[i].enabled = enabled]
                 /\ Len(removed.q) = Len(pending) + 1
                 /\ LastWrite(removed).siteLimits = Without(old, i)
                 /\ Len(toggled.q) = Len(pending) + 1
                 /\ LastWrite(toggled).siteLimits = toggled.cs.siteLimits

\* A limit of news.com was added behind that of shop.com and disabled, and
\* the limit of shop.com was removed: the store holds the disabled news.com
\* limit alone, and no entry of shop.com is left to remove or toggle
ToggledAndRemoved ==
    /\ pending = <<>>
    /\ storage.siteLimits = <<SiteLimit(SiteNews, 1, 0, FALSE)>>
    /\ currentSettings.siteLimits = storage.siteLimits

(* C18. In every reachable state, for every limit and message:
   updateGlobalLimit with a limit stores the limit and enables tracking,
   with no limit (null) stores null and disables tracking, and in both cases
   leaves globalUsed and the site limits as they are, in memory and in the
   contents it writes to the store. A limit of 0 counts as no limit. *)
GlobalLimitKeepsUsage ==
    \A limit \in GlobalLimitValues, message \in MessageInputs :
        LET updated == updateGlobalLimit(Cur, limit, message)
            given == limit # Null /\ limit # Some(0)
        IN  /\ updated.cs.globalDailyLimit = IF given THEN limit ELSE Null
            /\ updated.cs.timeRestrictionsEnabled = given
            /\ updated.cs.globalUsed = currentSettings.globalUsed
            /\ updated.cs.siteLimits = currentSettings.siteLimits
            /\ updated.cs.lastResetDate = currentSettings.lastResetDate
            /\ Len(updated.q) = Len(pending) + 1
            /\ LastWrite(updated) = Restrict(updated.cs, SettingsKeys)

\* The daily limit was cleared and the store still holds the minute used
LimitClearedUsageKept ==
    /\ pending = <<>>
    /\ storage.globalDailyLimit = Null
    /\ ~storage.timeRestrictionsEnabled
    /\ storage.globalUsed = 1
    /\ currentSettings.globalUsed = 1

(* ---------------------------- the daily rollover ----------------------- *)
(* One tab on news.com with a site limit, one minute already used; the day
   changes, passes run, limits are set again, and the process restarts. *)
DayTicks == 3
DayUrls == [AllClosed EXCEPT ![1] = UrlNews]

InitDay ==
    Running(WithLimits(ScenarioLimit, 1, <<SiteLimit(SiteNews, MaxLimit, 1, TRUE)>>),
            DayUrls, 0)

DayRequest ==
    /\ pending = <<>>
    /\ events = <<>>
    /\ \/ AddSiteLimit(SiteNews, Minutes(MaxLimit))
       \/ UpdateGlobalLimit(Some(ScenarioLimit), "")
       \/ UpdateGlobalLimit(Null, "")

NextDay ==
    \/ Tick(DayTicks)
    \/ DayChange
    \/ PassSteps
    \/ NotifyDone
    \/ DayRequest
    \/ Restart
    \/ LoadSettings
    \/ InitResume
    \/ StartupScan

SpecDay == InitDay /\ [][NextDay]_vars

Loaded == DOMAIN currentSettings # {}

\* The memory after g more minutes of usage were applied
WithUsage(m, g) ==
    LET sl == m.cs.siteLimits
    IN  [m EXCEPT !.cs.globalUsed = @ + g,
                  !.cs.siteLimits = [i \in 1..Len(sl) |->
                                       [sl[i] EXCEPT !.used = Min(@ + g, sl[i].limit)]]]

(* C19. The rollover is idempotent. In every state with loaded settings:
   when lastResetDate differs from today, the rollover zeroes globalUsed and
   the used of every site limit, sets lastResetDate to today, keeps the rest
   and writes the settings; when lastResetDate is today it changes nothing
   and writes nothing. A second rollover on the same day changes nothing and
   writes nothing, also after usage was added in between. *)
RolloverIdempotent ==
    Loaded =>
      LET cs == currentSettings
          once == resetDailyCountersIfNeeded(Cur, today, "init")
      IN  /\ IF cs.lastResetDate # DateString(today)
             THEN /\ once.cs.globalUsed = 0
                  /\ Len(once.cs.siteLimits) = Len(cs.siteLimits)
                  /\ \A i \in 1..Len(cs.siteLimits) :
                        once.cs.siteLimits[i] = [cs.siteLimits[i] EXCEPT !.used = 0]
                  /\ once.cs.lastResetDate = DateString(today)
                  /\ \A k \in SettingsKeys \ {"globalUsed", "siteLimits", "lastResetDate"} :
                        once.cs[k] = cs[k]
                  /\ Len(once.q) = Len(pending) + 1
                  /\ LastWrite(once) = Restrict(once.cs, SettingsKeys)
             ELSE once = Cur
          /\ resetDailyCountersIfNeeded(once, today, "init") = once
          /\ \A g \in 1..MaxCredit :
                resetDailyCountersIfNeeded(WithUsage(once, g), today, "init")
                  = WithUsage(once, g)

\* The process restarted on the next day: the counters were reset and the
\* reset was written to the store
RolledOverAtStart ==
    /\ restarts = 1
    /\ today = 1
    /\ initPc = "ready"
    /\ storage.lastResetDate = DateString(1)
    /\ storage.globalUsed = 0
    /\ \A i \in 1..Len(storage.siteLimits) : storage.siteLimits[i].used = 0
    /\ Loaded
    /\ currentSettings.lastResetDate = DateString(1)

\* The step issues a write of the settings: a usage application or a
\* limit operation has gone through the limit store
SettingsWritten ==
    /\ Len(pending') = Len(pending) + 1
    /\ "lastResetDate" \in DOMAIN pending'[Len(pending')].items

(* C20. The rollover is checked on each access of the limit store: every
   step of the engine that applies usage or performs a limit operation, and
   so writes the settings, writes them with lastResetDate equal to today,
   and when the day has changed since the last reset the usage it writes
   holds nothing of the previous day, being 0 apart from what the step
   itself adds. *)
RolloverOnAccess ==
    [][SettingsWritten =>
         LET w == pending'[Len(pending')].items
         IN  /\ w.lastResetDate = DateString(today)
             /\ (Loaded /\ currentSettings.lastResetDate # DateString(today))
                  => w.globalUsed <= pass.globalTimeAdded]_vars

(* --------------------------- passes and the timer ---------------------- *)
\* The step in which the interval timer fires
TimerFired == timerDue # Null /\ timerDue' # Null /\ timerDue' # timerDue

(* C13. Passes never overlap. The flag isUpdating is set exactly while a
   pass is in progress; a timer firing that arrives while a pass is in
   progress, suspended at a probe or a persist, changes nothing of the pass,
   the registry, the store or the outputs; and a pass starts only in the
   step of a timer firing, so a skipped firing is not made up for later. *)
PassesNeverOverlap ==
    [][/\ isUpdating' <=> pc' # "idle"
       /\ (TimerFired /\ pc # "idle") =>
             UNCHANGED <<pc, pass, isUpdating, currentSettings, timeTrackers,
                         storage, pending, events, notified, redirected,
                         redirectPending, tabUrl>>
       /\ (pc = "idle" /\ pc' # "idle") =>
             TimerFired /\ now >= Val(timerDue)]_vars

\* The pass of time 60 s is still waiting for its probe when the firing of
\* time 120 s has come and gone
FiringSkippedReached ==
    /\ pc = "probe"
    /\ isUpdating
    /\ pass.now = TimerInterval
    /\ timerDue = Some(3 * TimerInterval)

(* --------------------------- the tab state machine --------------------- *)
\* The event of tab t is handled in this step: the tab closed, or its
\* navigation to a non-trackable page completed
LeftTracking(t) ==
    /\ listening
    /\ HasTracker(timeTrackers, t)
    /\ tabUrl'[t] # tabUrl[t]
    /\ ~isTrackableUrl(tabUrl'[t])

(* C21. A tracked tab becomes untracked in the step that handles its close
   event or the completed navigation to a non-trackable URL: its session is
   gone from the registry after the step and a write of the registry
   without it has been issued, no pass being needed. *)
UntrackedOnLeaving ==
    [][\A t \in Tabs :
         LeftTracking(t) =>
           /\ ~HasTracker(timeTrackers', t)
           /\ Len(pending') = Len(pending) + 1
           /\ pending'[Len(pending')].items = [trackingSessions |-> Snapshot(timeTrackers')]]_vars

UrlInputs ==
    NavUrls \cup {NoTab, UrlBlocked, <<"about:", "blank">>,
                  <<"http://", "news.com", "/">>, <<"ftp://", "files.org">>}

\* A handler has set the session of tab t in this step: the registry holds
\* a session of t that starts now and has no history, and did not before
Upserted(t) ==
    /\ initPc # "loading"
    /\ HasTracker(timeTrackers', t)
    /\ origStart'[t] = Some(now) /\ credited'[t] = Some(0) /\ lastPassAt'[t] = Null
    /\ \/ ~HasTracker(timeTrackers, t)
       \/ origStart[t] # Some(now) \/ credited[t] # Some(0) \/ lastPassAt[t] # Null

(* C22. Sessions are never created for non-trackable URLs. A URL is
   trackable exactly when it is present and begins with http:// or
   https://; and whenever the update, activation or startup-scan handler
   sets the session of a tab, the tab shows a trackable URL at that moment
   and the session carries the host name of that URL. *)
OnlyTrackableTracked ==
    [][/\ \A url \in UrlInputs :
            isTrackableUrl(url) <=> (url # NoTab /\ Head(url) \in {"http://", "https://"})
       /\ \A t \in Tabs :
            Upserted(t) =>
              /\ isTrackableUrl(tabUrl'[t])
              /\ SessionOf(t)' = NewSession(t, tabUrl'[t], now)]_vars

\* After the restart the scan has tracked tab 2 on news.com and left tab 1,
\* on the settings page, untracked
TrackableScannedOnly ==
    /\ restarts = 1
    /\ initPc = "ready" /\ ~scanPending
    /\ tabUrl[1] = UrlInternal /\ ~HasTracker(timeTrackers, 1)
    /\ tabUrl[2] = UrlNews /\ HasTracker(timeTrackers, 2)
    /\ origStart[2] = Some(now) /\ now > 0

(* --------------------------- the message protocol ---------------------- *)
(* The popup sends every kind of time_ message, with well-formed and
   ill-formed arguments, each after the store has settled. *)
TimeActions ==
    {"time_addSiteLimit", "time_removeSiteLimit", "time_toggleSiteLimit",
     "time_updateGlobalLimit", "time_getStats", "time_getActiveSessions",
     "time_resetAll", "time_"}

MessageSites == {<<"shop.com">>, <<"news.com">>, <<"https://">>}
MessageLimits == {Minutes(-1), NotANumber, Minutes(1)}

Requests ==
    {Request(a, site, limit, enabled, dailyLimit, "") :
        a \in TimeActions, site \in MessageSites, limit \in MessageLimits,
        enabled \in BOOLEAN, dailyLimit \in {Null, Some(MaxLimit)}}

MessageRequest ==
    /\ pending = <<>>
    /\ events = <<>>
    /\ \E r \in Requests : TimeMessage(r)

NextMessages ==
    \/ MessageRequest
    \/ StorageCommit
    \/ DeliverChange

SpecMessages == InitLimits /\ [][NextMessages]_vars

WellFormedResponse(result) ==
    /\ DOMAIN result \subseteq {"success", "error", "data"}
    /\ result.success \in BOOLEAN
    /\ ~result.success => result.error # "" /\ "data" \notin DOMAIN result

RejectedRequest(m, r) ==
    \/ r.action = "time_addSiteLimit"
         /\ (normalizeDomain(r.site) = <<>> \/ InvalidLimit(r.limit))
    \/ r.action \in {"time_removeSiteLimit", "time_toggleSiteLimit"}
         /\ FindSite(m.cs.siteLimits, normalizeDomain(r.site)) = 0
    \/ r.action \notin {"time_addSiteLimit", "time_removeSiteLimit",
                         "time_toggleSiteLimit", "time_updateGlobalLimit",
                         "time_getStats", "time_getActiveSessions"}

(* C23. In every reachable state every time_ request is answered with
   exactly one response, which is {success: false, error} with an error
   text or {success: true} with or without data; a request that fails
   validation, names a site without limit or has an unknown action is
   answered with success: false and leaves the memory and the write queue
   as they are. *)
OneResponsePerRequest ==
    \A r \in Requests :
        LET h == handleTimeMessage(Cur, r)
        IN  /\ Len(h.sent) = 1
            /\ WellFormedResponse(h.sent[1])
            /\ h.sent[1].success <=> ~RejectedRequest(Cur, r)
            /\ RejectedRequest(Cur, r) => h.mem = Cur

\* The limit of shop.com was removed by a message; a second removal is
\* answered with the not-found failure
SecondRemovalRefused ==
    /\ pending = <<>>
    /\ storage.siteLimits = <<>>
    /\ currentSettings.siteLimits = <<>>
    /\ handleTimeMessage(Cur, Request("time_removeSiteLimit", <<"shop.com">>,
                                       NotANumber, FALSE, Null, "")).sent
         = <<Failure(ErrNotFound)>>

(* ------------------------ spellings of a site -------------------------- *)
\* The spellings of a site: optional blanks around, a scheme in either
\* case, www. in either case, the host in either case, a port, a path
Opt(toks) == {<<>>} \cup {<<tok>> : tok \in toks}

Spellings(hosts) ==
    {lead \o scheme \o www \o <<host>> \o port \o path \o trail :
        lead \in Opt({" "}), scheme \in Opt({"http://", "https://", "HTTPS://"}),
        www \in Opt({"www.", "WWW."}), host \in hosts,
        port \in Opt(PortToks), path \in Opt({"/", "/path"}), trail \in Opt({" "})}

ExampleSpellings == Spellings({"example.com", "Example.com"})
ShopSpellings == Spellings({"shop.com"})
SiteExample == <<"example.com">>

(* Limits are added, toggled and removed under any spelling of example.com
   and shop.com, starting from an empty list. *)
InitSpell == Running(WithLimits(ScenarioLimit, 0, <<>>), AllClosed, 0)

SpellRequest ==
    /\ pending = <<>>
    /\ events = <<>>
    /\ \E site \in ExampleSpellings \cup ShopSpellings :
          \/ \E n \in 1..MaxLimit : AddSiteLimit(site, Minutes(n))
          \/ \E enabled \in BOOLEAN : ToggleSiteLimit(site, enabled)
          \/ RemoveSiteLimit(site)

NextSpell ==
    \/ SpellRequest
    \/ StorageCommit
    \/ DeliverChange

SpecSpell == InitSpell /\ [][NextSpell]_vars

(* C24. normalizeDomain maps "https://www.Example.com/path", "example.com"
   and "www.example.com:443" to "example.com", and every spelling of a site
   that differs in scheme, letter case, blanks around, a leading www., path
   or port to the one key of the site; so however the requests spell the
   two sites, the lists of site limits hold at most one entry for each,
   under its key. *)
SpellingsShareKey ==
    /\ normalizeDomain(<<"https://", "www.", "Example.com", "/path">>) = SiteExample
    /\ normalizeDomain(<<"example.com">>) = SiteExample
    /\ normalizeDomain(<<"www.", "example.com", ":443">>) = SiteExample
    /\ \A site \in ExampleSpellings : normalizeDomain(site) = SiteExample
    /\ \A site \in ShopSpellings : normalizeDomain(site) = SiteShop
    /\ \A sl \in SiteLimitLists :
          /\ NoDuplicateSite(sl)
          /\ \A i \in 1..Len(sl) : sl[i].site \in {SiteExample, SiteShop}

\* Limits of both sites were added, that of example.com was disabled and
\* given the limit 1: the store holds one entry for each site
BothSitesUnderTheirKeys ==
    /\ pending = <<>>
    /\ storage.siteLimits = <<SiteLimit(SiteShop, MaxLimit, 0, TRUE),
                              SiteLimit(SiteExample, 1, 0, FALSE)>>

(* ----------------------- a failing read at startup --------------------- *)
(* One tab; the process restarts and the read of the settings at startup
   succeeds or fails. *)
NextFail ==
    \/ Tick(RestartTicks)
    \/ \E t \in PassTabs, url \in PassUrls : TabNavigate(t, url)
    \/ \E t \in PassTabs : TabClose(t)
    \/ PassSteps
    \/ Restart
    \/ LoadSettings
    \/ LoadSettingsFails
    \/ StartupScan

SpecFail == InitRestart /\ [][NextFail]_vars

(* C25. A failing read at startup is not fatal: once init() has left
   loadSettings, whether the read succeeded or failed, the engine has
   settings (the stored ones or the defaults), its listeners are registered
   and the timer is started. *)
StartupNeverHalts ==
    initPc \notin {"loading", "resetting"} =>
        /\ DOMAIN currentSettings = SettingsKeys
        /\ listening
        /\ timerDue # Null

(* ------------------------- what a pass may change ---------------------- *)
\* The step in which the loop of a pass ends and its minutes, if any, are
\* applied to the settings
PassApplies == pc = "probe" /\ pc' # "probe" /\ Loaded /\ Loaded'

GlobalTrackingOn(cs) == cs.timeRestrictionsEnabled /\ Truthy(cs.globalDailyLimit)

(* C26. A pass increases globalUsed only if, when it applies its minutes,
   global tracking is enabled and a daily limit is configured; a pass that
   applies its minutes when either does not hold leaves globalUsed as it
   is, and so does a timer firing, which applies nothing yet and starts no
   pass while tracking is disabled. *)
GlobalCountedOnlyWhenSet ==
    [][/\ PassApplies =>
            IF GlobalTrackingOn(currentSettings)
            THEN currentSettings'.globalUsed >= currentSettings.globalUsed
            ELSE currentSettings'.globalUsed = currentSettings.globalUsed
       /\ TimerFired =>
            /\ currentSettings' = currentSettings
            /\ ~currentSettings.timeRestrictionsEnabled => pc' = pc]_vars

\* The daily limit was cleared while a pass was waiting for its probe: the
\* pass has credited the minute to news.com and not to the global counter
SiteCreditedGlobalNot ==
    /\ pc = "saving"
    /\ currentSettings.globalDailyLimit = Null
    /\ currentSettings.globalUsed = 1
    /\ currentSettings.siteLimits = <<SiteLimit(SiteNews, MaxLimit, 2, TRUE)>>

\* The step in which the probe of tab t answers that the tab is closed or
\* on a non-trackable page
ProbeMisses(t) ==
    /\ pc = "probe"
    /\ pass.tabId = t
    /\ ~isTrackableUrl(tabUrl[t])
    /\ (pc' # "probe" \/ pass'.tabId # t)
    /\ Loaded'

(* C27. When the probe of a pass finds the tab of a session closed or on a
   non-trackable URL, the session is removed from the registry and adds
   nothing to the totals of the pass: the counted minutes and the sessions
   of the other tabs are as before, the pass goes on to probe the next
   session of another tab behind its position in the registry if there is
   one, and otherwise applies the minutes of the sessions processed
   before. *)
DeadSessionDropped ==
    [][\A t \in Tabs :
         ProbeMisses(t) =>
           /\ ~HasTracker(timeTrackers', t)
           /\ counted' = counted
           /\ \A u \in Tabs \ {t} :
                 /\ HasTracker(timeTrackers', u) <=> HasTracker(timeTrackers, u)
                 /\ HasTracker(timeTrackers, u) => SessionOf(u)' = SessionOf(u)
           /\ LET rest == {i \in (pass.idx + 1)..Len(timeTrackers) :
                               timeTrackers[i].tabId # t}
              IN  IF rest # {}
                  THEN /\ pc' = "probe"
                       /\ \E i \in rest :
                             /\ \A j \in rest : i <= j
                             /\ pass'.tabId = timeTrackers[i].tabId
                       /\ pass'.globalTimeAdded = pass.globalTimeAdded
                       /\ pass'.siteTimeUpdates = pass.siteTimeUpdates
                       /\ currentSettings' = currentSettings
                  ELSE /\ pc' \in {"saving", "persisting"}
                       /\ currentSettings'.globalUsed
                            = ApplyGlobalUsage(currentSettings, pass.globalTimeAdded).globalUsed]_vars

\* The pass of time 60 s found tab 1 on the settings page, removed its
\* session without counting it, and now probes tab 2, tracked since 0
DroppedAndWentOn ==
    /\ restarts = 0
    /\ pc = "probe"
    /\ pass.now = TimerInterval
    /\ pass.tabId = 2
    /\ pass.globalTimeAdded = 0
    /\ tabUrl[1] = UrlInternal
    /\ timeTrackers = <<NewSession(2, UrlNews, 0)>>
    /\ counted = 0

(* C28. The frame of applying usage. For every store and every per-site
   minutes of a pass: the list of site limits keeps its length and order,
   every entry keeps its site, limit and enabled flag, an entry whose used
   changes is enabled and has the site of a host name that received
   minutes, so disabled entries and entries of other sites are unchanged,
   and a host name without entry gets none. *)
UsageAppliedToCreditedOnly ==
    \A siteTimes \in DrawnSiteTimes :
        LET old == currentSettings.siteLimits
            new == ApplySiteLimits(old, siteTimes)
        IN  /\ Len(new) = Len(old)
            /\ \A i \in 1..Len(old) :
                  /\ new[i] = [old[i] EXCEPT !.used = new[i].used]
                  /\ new[i].used # old[i].used =>
                        old[i].enabled /\ old[i].site \in DOMAIN siteTimes
                  /\ (old[i].enabled /\ old[i].site \in DOMAIN siteTimes) =>
                        new[i].used = Min(old[i].used + siteTimes[old[i].site],
                                          old[i].limit)

\* Two minutes were applied: the enabled entry of news.com was credited one
\* of them, the disabled entry of shop.com nothing
DisabledEntryPassedOver ==
    /\ counted = 2
    /\ currentSettings.siteLimits = <<SiteLimit(SiteNews, MaxLimit, 1, TRUE),
                                      SiteLimit(SiteShop, MaxLimit, 0, FALSE)>>

(* One tab on news.com, a daily limit and a limit for news.com; the daily
   limit is cleared and set again and the entry switched off and on while
   passes run, and a write of the settings may be rejected. *)
GateTicks == 4

GateRequest ==
    /\ pending = <<>>
    /\ events = <<>>
    /\ \/ UpdateGlobalLimit(Some(ScenarioLimit), "")
       \/ UpdateGlobalLimit(Null, "")
       \/ \E enabled \in BOOLEAN : ToggleSiteLimit(SiteNews, enabled)

NextGate ==
    \/ Tick(GateTicks)
    \/ PassSteps
    \/ SaveFails
    \/ NotifyDone
    \/ GateRequest

SpecGate == InitDay /\ [][NextGate]_vars

\* The counters of the settings in memory
Counters(cs) ==
    <<cs.globalUsed, [i \in 1..Len(cs.siteLimits) |-> cs.siteLimits[i].used]>>

(* checkLimits is evaluated only in a step of a pass that waited in
   saveSettings and whose write has been taken by the storage; a pass
   reaches that wait only in a step that changed a counter, and that step
   applied all the minutes of the pass at once, to the total and to every
   entry. A warning is recorded only by an evaluation, so a pass that
   changed no counter, or whose write was rejected, checks no limit and
   dispatches nothing. *)
EvaluatedOnlyAfterSave ==
    [][ /\ evaluated' > evaluated =>
              /\ pc = "saving"
              /\ ~Awaited(pending, "pass")
              /\ evaluated' = evaluated + 1
        /\ (pc # "saving" /\ pc' = "saving") =>
              /\ Counters(currentSettings') # Counters(currentSettings)
              /\ currentSettings' =
                     [ApplyGlobalUsage(currentSettings, SumOf(pass'.siteTimeUpdates))
                         EXCEPT !.siteLimits = ApplySiteLimits(@, pass'.siteTimeUpdates)]
              /\ Awaited(pending', "pass")
        /\ Len(notified') > Len(notified) => evaluated' = evaluated + 1
      ]_vars

(* C29. The limits are checked only by a pass that changed a counter and
   whose write of the settings has been taken by the storage, a warning is
   recorded only by such a check, and the check reads from memory the
   counters that the pass applied and the storage now holds, all of them
   updated for that pass. *)
CheckSeesAppliedCounters ==
    [][ /\ evaluated' > evaluated =>
              /\ pc = "saving"
              /\ ~Awaited(pending, "pass")
              /\ Counters(currentSettings) = Counters(storage)
        /\ (pc # "saving" /\ pc' = "saving") =>
              Counters(currentSettings') # Counters(currentSettings)
        /\ Len(notified') > Len(notified) => evaluated' > evaluated
      ]_vars

(* Two tabs stay open, on news.com and on shop.com, each with a limit;
   passes run and the probe of any session may fail. *)
FaultTicks == 4

FaultUrls == [AllClosed EXCEPT ![1] = UrlNews, ![2] = UrlShop]

InitFault ==
    Running(WithLimits(ScenarioLimit, 0, <<SiteLimit(SiteNews, MaxLimit, 1, TRUE),
                                           SiteLimit(SiteShop, MaxLimit, 0, TRUE)>>),
            FaultUrls, 0)

NextFault ==
    \/ Tick(FaultTicks)
    \/ PassSteps
    \/ ProbeFails
    \/ NotifyDone

SpecFault == InitFault /\ [][NextFault]_vars

\* The step in which the processing of the session of tab t fails while the
\* tab is open on a trackable page
FaultAt(t) ==
    /\ pc = "probe"
    /\ pass.tabId = t
    /\ isTrackableUrl(tabUrl[t])
    /\ HasTracker(timeTrackers, t)
    /\ ~HasTracker(timeTrackers', t)

\* The step in which the for loop of a pass is left
LoopLeft == pc = "probe" /\ pc' # "probe"

(* C30. A failure while a session is processed removes that session and
   nothing else: the sessions of the other tabs stay as they are, the
   minutes the pass has counted so far are kept, and the loop goes on with
   the next entry of the registry. When the loop is left, every session
   still in the registry has been processed by this pass, the minutes
   counted are applied to the total and to every site entry, and the pass
   ends only after it has queued a write of the whole registry and that
   write has been taken by the storage. *)
FailureDropsOneSession ==
    [][ /\ \A t \in Tabs :
              FaultAt(t) =>
                 /\ \A u \in Tabs \ {t} :
                       /\ HasTracker(timeTrackers', u) <=> HasTracker(timeTrackers, u)
                       /\ HasTracker(timeTrackers, u) => SessionOf(u)' = SessionOf(u)
                 /\ counted' = counted
                 /\ LET rest == {i \in (pass.idx + 1)..Len(timeTrackers) :
                                     timeTrackers[i].tabId # t}
                    IN  IF rest # {}
                        THEN /\ pc' = "probe"
                             /\ \E i \in rest :
                                   /\ \A j \in rest : i <= j
                                   /\ pass'.tabId = timeTrackers[i].tabId
                             /\ pass'.globalTimeAdded = pass.globalTimeAdded
                             /\ pass'.siteTimeUpdates = pass.siteTimeUpdates
                        ELSE /\ LoopLeft
                             /\ currentSettings' =
                                    [ApplyGlobalUsage(currentSettings, pass.globalTimeAdded)
                                        EXCEPT !.siteLimits =
                                           ApplySiteLimits(@, pass.siteTimeUpdates)]
                             /\ pc' = IF pass.globalTimeAdded > 0 THEN "saving"
                                      ELSE "persisting"
        /\ LoopLeft =>
              \A u \in Tabs :
                 HasTracker(timeTrackers', u) => lastPassAt'[u] = Some(pass.now)
        /\ (pc # "persisting" /\ pc' = "persisting") =>
              pending'[Len(pending')]
                 = Write([trackingSessions |-> Snapshot(timeTrackers')], "pass")
        /\ (pc # "idle" /\ pc' = "idle") =>
              pc = "persisting" /\ ~Awaited(pending, "pass")
      ]_vars

\* The pass of time 60 s failed on the session of tab 1, which is still
\* open on news.com, counted the minute of tab 2 on shop.com, applied it and
\* has ended with the registry written: it holds the session of tab 2 only
OtherSessionCountedAndSaved ==
    /\ pc = "idle"
    /\ tabUrl = FaultUrls
    /\ timeTrackers = <<[NewSession(2, UrlShop, TimerInterval) EXCEPT
                            !.lastUpdate = TimerInterval]>>
    /\ currentSettings.globalUsed = 1
    /\ currentSettings.siteLimits = <<SiteLimit(SiteNews, MaxLimit, 1, TRUE),
                                      SiteLimit(SiteShop, MaxLimit, 1, TRUE)>>
    /\ storage.globalUsed = 1
    /\ storage.trackingSessions = Snapshot(timeTrackers)
    /\ pending = <<>>

(* The two tabs of SpecFault; every probe and every write may fail, and
   every call the pass waits for returns. *)
NextLive ==
    \/ NextFault
    \/ SaveFails
    \/ PersistFails

SpecLive ==
    /\ InitFault
    /\ [][NextLive]_vars
    /\ WF_vars(ProbeAnswer \/ ProbeFails)
    /\ WF_vars(SaveDone \/ SaveFails)
    /\ WF_vars(PersistDone \/ PersistFails)
    /\ WF_vars(NotifyDone)
    /\ WF_vars(StorageCommit)
    /\ WF_vars(DeliverChange)

(* C31. A pass that has started, and so has set isUpdating, always reaches
   its end when the calls it waits for return, whether they succeed or
   fail, and isUpdating is false whenever no pass is in progress: the flag
   never stays set. *)
PassCompletes ==
    /\ isUpdating ~> ~isUpdating
    /\ [](pc = "idle" => ~isUpdating)

\* Passes have ended with the flag cleared although a probe failed and the
\* writes of the settings were rejected: the minutes are in memory only
EndedThroughErrors ==
    /\ pc = "idle"
    /\ ~isUpdating
    /\ Len(timeTrackers) = 1
    /\ currentSettings.globalUsed = 2
    /\ storage.globalUsed = 0

(* One tab and passes, as in SpecPass; startUpdateInterval may be called
   again at any time. *)
Rearm ==
    /\ initPc = "ready"
    /\ timerDue' = startUpdateInterval(timerDue, now)
    /\ UNCHANGED <<envVars, storeVars, currentSettings, timeTrackers, passVars,
                   outVars, histVars, listening, initPc, scanPending, restarts>>

NextTimer ==
    \/ NextPass
    \/ Rearm

SpecTimer == InitPass /\ [][NextTimer]_vars

(* C32. At most one interval timer is armed in every state: arming the
   timer again cancels the one armed before, so that no interval has two
   timers that fire for it. *)
OneTimerArmed == Len(timerDue) <= 1

\* The timer armed at the start for 60 s was armed again at 30 s: the only
\* timer is due at 90 s, and the clock has passed 60 s
RearmedTimerOnly ==
    /\ timerDue = Some(ClockStep + TimerInterval)
    /\ now = ClockStep + TimerInterval
    /\ pc = "idle"
    /\ counted = 0

\* globalUsed and the used minutes of every site of cs that new still has
UsageKept(cs, new) ==
    /\ new.globalUsed = cs.globalUsed
    /\ \A i \in 1..Len(cs.siteLimits), j \in 1..Len(new.siteLimits) :
          new.siteLimits[j].site = cs.siteLimits[i].site =>
             new.siteLimits[j].used = cs.siteLimits[i].used

(* In every state, whatever the request: addSiteLimit for a site that has
   an entry, toggleSiteLimit and updateGlobalLimit leave globalUsed and the
   used minutes of every entry in memory as they are, and so does the write
   they queue. *)
RequestsKeepUsage ==
    /\ \A limit \in {Null, Some(ScenarioLimit), Some(1)} :
          UsageKept(currentSettings, updateGlobalLimit(Cur, limit, "").cs)
    /\ \A site \in {SiteNews, UrlNews, SiteShop} :
          /\ \A enabled \in BOOLEAN :
                UsageKept(currentSettings, toggleSiteLimit(Cur, site, enabled).cs)
          /\ \A limit \in LimitInputs :
                UsageKept(currentSettings, addSiteLimit(Cur, site, limit).cs)

(* C33. The usage counters in memory change only in the step in which a
   pass applies its minutes: no request for the site limits or the daily
   limit, and nothing that follows from one, changes globalUsed or the used
   minutes of an entry. *)
UsageChangedOnlyByPass ==
    [][Counters(currentSettings') # Counters(currentSettings) =>
          pc = "probe" /\ pc' # "probe"]_vars

(* One tab on news.com with a limit, one pass; requests that set the limit
   of news.com again or the daily limit arrive at any moment, also while
   writes and notifications are under way. The entry stays enabled. *)
EchoTicks == 2

EchoRequest ==
    \/ \E limit \in MaxLimit..(MaxLimit + 1) : AddSiteLimit(SiteNews, Minutes(limit))
    \/ UpdateGlobalLimit(Some(ScenarioLimit), "")

NextEcho ==
    \/ Tick(EchoTicks)
    \/ PassSteps
    \/ NotifyDone
    \/ EchoRequest

SpecEcho == InitDay /\ [][NextEcho]_vars

\* Nothing is under way: no pass, no write, no notification
Quiescent == pc = "idle" /\ pending = <<>> /\ events = <<>>

\* The step in which a storage.onChanged notification is handled
EchoHandled == events # <<>> /\ events' = Tail(events)

(* C34. When every write has been committed and every notification
   handled, the settings in memory are those in the storage and hold every
   minute that a pass has counted, in the total and in the entry of the
   site; and the handling of a notification never
   takes a counter in memory back to a lower value. *)
NoLostUpdates ==
    /\ [](Quiescent =>
            /\ currentSettings = Restrict(storage, SettingsKeys)
            /\ currentSettings.globalUsed = 1 + counted
            /\ currentSettings.siteLimits[1].used = 1 + counted)
    /\ [][EchoHandled =>
            /\ currentSettings'.globalUsed >= currentSettings.globalUsed
            /\ \A i \in 1..Len(currentSettings.siteLimits) :
                  currentSettings'.siteLimits[i].used
                     >= currentSettings.siteLimits[i].used]_vars

\* The session of tab t was set by a handler of tabs.onUpdated or
\* tabs.onActivated while the pass that is now at a probe was suspended
SetDuringPass(t) ==
    /\ Loaded
    /\ pc = "probe"
    /\ HasTracker(timeTrackers, t)
    /\ origStart[t] # Null
    /\ Val(origStart[t]) >= pass.now

(* C35. A session that a tab event sets while a pass is suspended is left
   alone by that pass. While the pass is at a probe the session is as the
   event made it, with no minute credited to it; no step taken from there,
   the one that processes its tab and the one that leaves the loop
   included, changes it or credits it; and the write of the registry that
   the pass queues at its end holds the sessions that are then in memory. *)
SessionOfEventUntouched ==
    /\ [](\A t \in Tabs :
            SetDuringPass(t) =>
               /\ SessionOf(t).startTime = Val(origStart[t])
               /\ SessionOf(t).lastUpdate = Val(origStart[t])
               /\ credited[t] = Some(0))
    /\ [][\A t \in Tabs :
            (SetDuringPass(t) /\ HasTracker(timeTrackers', t)
               /\ origStart'[t] = origStart[t]) =>
               /\ SessionOf(t)' = SessionOf(t)
               /\ credited'[t] = credited[t]]_vars
    /\ [][(Loaded /\ pc = "probe" /\ pc' = "persisting") =>
            pending'[Len(pending')]
               = Write([trackingSessions |-> Snapshot(timeTrackers')], "pass")]_vars

\* The pass of time 60 s waits for the probe of tab 1, whose session it read
\* with a minute to count; meanwhile the tab has loaded a page and the
\* registry holds the session of 60 s, which the pass does not hold
ReplacedDuringProbe ==
    /\ SetDuringPass(1)
    /\ pass.tabId = 1
    /\ ~pass.live
    /\ timeSpentMinutes(pass.now, pass.startTime) = 1
    /\ SessionOf(1) = NewSession(1, UrlNews, TimerInterval)

(* Two tabs navigate and close while passes run; the answer of a probe may
   reach the pass after events that are newer than it. *)
NextStale ==
    \/ Tick(RestartTicks)
    \/ \E t \in Tabs, url \in PassUrls : TabNavigate(t, url)
    \/ \E t \in Tabs : TabClose(t)
    \/ PassSteps
    \/ ProbeRead
    \/ ProbeAnswerLate

SpecStale == InitRestart /\ [][NextStale]_vars

(* C36. When no pass is running and no write is under way, a tab has a
   session only if it is open, and every open tab that shows a trackable
   page, whose load was the last event handled for it, has a session:
   the answer of a probe never removes the session that a newer event
   made. *)
SessionsMatchTabs ==
    Quiescent =>
       \A t \in Tabs :
          /\ HasTracker(timeTrackers, t) => tabUrl[t] # NoTab
          /\ isTrackableUrl(tabUrl[t]) => HasTracker(timeTrackers, t)

(* A fresh installation: no daily limit, tracking disabled. The tabs load
   news.com and are activated, with a session for tab 1 since 0; the timer
   fires; at 90 s the user sets a daily limit, which enables tracking. *)
RetroTicks == 4

EnableTime == TimerInterval + ClockStep

InitRetro == Running(Defaults(0), DayUrls, 0)

EnableTracking ==
    /\ now = EnableTime
    /\ pending = <<>>
    /\ events = <<>>
    /\ ~currentSettings.timeRestrictionsEnabled
    /\ UpdateGlobalLimit(Some(ScenarioLimit), "")

NextRetro ==
    \/ Tick(RetroTicks)
    \/ \E t \in Tabs : TabNavigate(t, UrlNews)
    \/ \E t \in Tabs : TabActivate(t)
    \/ PassSteps
    \/ EnableTracking

SpecRetro == InitRetro /\ [][NextRetro]_vars

(* C37. The minutes that passes have counted are at most the whole minutes
   that have elapsed since tracking was enabled: none before, and after it
   none for the time a session had already lasted. *)
CountedSinceEnabledOnly ==
    counted * MsPerMinute <= (IF now > EnableTime THEN now - EnableTime ELSE 0)

(* Limits are added, toggled and removed under spellings of example.com
   that repeat the www. prefix or the scheme, starting from an empty list. *)
RoundSites ==
    {<<"example.com">>, <<"www.", "example.com">>,
     <<"www.", "www.", "example.com">>,
     <<"http://", "https://", "www.", "example.com">>,
     <<"https://", "www.", "shop.com", "/cart">>}

\* The list grows with every addition under a repeated prefix: the requests
\* stop when it holds RoundEntries entries
RoundEntries == 3

RoundRequest ==
    /\ pending = <<>>
    /\ events = <<>>
    /\ Len(currentSettings.siteLimits) < RoundEntries
    /\ \E site \in RoundSites :
          \/ \E n \in 1..MaxLimit : AddSiteLimit(site, Minutes(n))
          \/ \E enabled \in BOOLEAN : ToggleSiteLimit(site, enabled)
          \/ RemoveSiteLimit(site)

NextRound ==
    \/ RoundRequest
    \/ StorageCommit
    \/ DeliverChange

SpecRound == InitSpell /\ [][NextRound]_vars

(* C38. In every state and for every site string that addSiteLimit
   accepts: the key it is stored under is a fixed point of normalizeDomain;
   after the addition, toggleSiteLimit and removeSiteLimit with the same
   string find the entry; and when the site had no entry before, removing
   it gives back the list of before the addition. *)
AddThenFind ==
    \A site \in RoundSites :
       LET added == addSiteLimit(Cur, site, Minutes(1))
       IN  addSiteLimitResult(Cur, site, Minutes(1)) = Success =>
              /\ normalizeDomain(normalizeDomain(site)) = normalizeDomain(site)
              /\ toggleSiteLimitResult(added, site, FALSE) = Success
              /\ removeSiteLimitResult(added, site) = Success
              /\ FindSite(currentSettings.siteLimits, normalizeDomain(site)) = 0 =>
                     removeSiteLimit(added, site).cs.siteLimits
                        = currentSettings.siteLimits


(* A fresh installation with the tabs on news.com. The popup sets the daily
   limit to nothing, to 0, to a negative number and to a positive number
   of minutes while the timer runs its passes. *)
SignLimits == {Null, Some(0), Some(-1), Some(MaxLimit)}

SignRequest ==
    /\ pending = <<>>
    /\ events = <<>>
    /\ \E limit \in SignLimits : UpdateGlobalLimit(limit, "")

NextSign ==
    \/ Tick(RetroTicks)
    \/ PassSteps
    \/ NotifyDone
    \/ SignRequest

SpecSign == InitRetro /\ [][NextSign]_vars

\* A positive whole number of minutes
PositiveLimit(limit) == limit # Null /\ Val(limit) > 0

(* C39. In every state timeRestrictionsEnabled is true exactly when
   globalDailyLimit holds a positive number of minutes, in memory and in
   the store: no request leaves tracking enabled with a zero or negative
   daily limit. *)
EnabledIffPositiveLimit ==
    /\ currentSettings.timeRestrictionsEnabled
          <=> PositiveLimit(currentSettings.globalDailyLimit)
    /\ storage.timeRestrictionsEnabled <=> PositiveLimit(storage.globalDailyLimit)

\* The part that holds: tracking is enabled exactly when a limit is stored
EnabledIffLimitStored ==
    /\ currentSettings.timeRestrictionsEnabled
          <=> currentSettings.globalDailyLimit # Null
    /\ currentSettings.globalDailyLimit # Null
          => Val(currentSettings.globalDailyLimit) # 0

====
